---------------------------- MODULE Spec2Model ----------------------------
(***************************************************************************)
(* Deck construction and mana-base assembly of the MTG deck builder:       *)
(*   services/deck_constructor.py  (DeckConstructorService)                *)
(*   rag/mana_base_calculator.py   (ManaBaseCalculator)                    *)
(*   rag/synergy_detector.py       (SynergyDetector)                       *)
(*   rag/deck_constructor.py       (DeckConstructor)                       *)
(*   services/deck_optimizer.py    (DeckOptimizerService, mana curve)      *)
(* A Python dict is modelled as a sequence of [name, qty] records in       *)
(* insertion order; real-valued scores are modelled in hundredths.         *)
(***************************************************************************)
EXTENDS Integers, Sequences, FiniteSets, TLC

VARIABLES
    pc,                 \* position of the call being modelled
    error,              \* exception raised by the call ("" when none)
    format_name,        \* format_name argument
    primary_strategy,   \* deck_params["primary_strategy"] / strategy argument
    secondary_strategy, \* deck_params["secondary_strategy"]
    mechanics,          \* deck_params["mechanics"] / mechanics argument
    deck_colors,        \* deck_params["colors"] / deck_colors argument
    specific_cards,     \* pinned card names
    card_pool,          \* list of card names returned by retrieval
    synergy_scores,     \* card name -> score, in hundredths
    synergy_cache,      \* SynergyDetector.synergy_cache: key -> scores
    composition,        \* card type -> target count
    existing_deck,      \* deck handed to the call (kept to compare with)
    deck,               \* the decklist being built
    mana_requirements,  \* color -> pip count
    land_categories,    \* category -> list of land names
    total_land_count,   \* result of _calculate_total_land_count
    land_distribution,  \* result of _distribute_lands
    mana_curve,         \* result of calculate_mana_curve
    calls,              \* concurrent calculate_synergies calls: id -> frame
    classified_card,    \* card handed to _get_primary_type
    primary_type,       \* result of _get_primary_type
    matches,            \* matches of the two vector queries of retrieve_card_pool
    analysis,           \* deck analysis handed to the optimizer's helpers
    weak_cards,         \* result of _identify_weak_cards_heuristic
    suggestions,        \* result of _generate_replacement_suggestions
    replacement_scores  \* card name -> score _score_replacement gives it

vars == <<pc, error, format_name, primary_strategy, secondary_strategy,
          mechanics, deck_colors, specific_cards, card_pool, synergy_scores,
          synergy_cache, composition, existing_deck, deck, mana_requirements,
          land_categories, total_land_count, land_distribution, mana_curve,
          calls, classified_card, primary_type, matches, analysis,
          weak_cards, suggestions, replacement_scores>>

---------------------------------------------------------------------------
(* Bounds of the model *)

\* longest card pool drawn from PoolNames
MaxPool == 3
\* most entries of a decklist handed to _adjust_quantities
MaxDeckLen == 2
\* most names in the list of pinned cards
MaxPinned == 2
\* most colors of a deck
MaxColors == 3
\* most pips required of one color
MaxPips == 4
\* longest card pool handed to calculate_synergies
MaxCachePool == 2
\* longest card pool of a construct_deck request
MaxRequestPool == 2
\* longest decklist handed to calculate_mana_curve
MaxCurveLen == 3
\* longest card pool of the requests served by one service
MaxRunPool == 2
\* number of calculate_synergies calls in flight on one detector
MaxCalls == 3
\* longest card pool handed to the selector together with an overfilled deck
MaxSeededPool == 3
\* most types on a card handed to _get_primary_type
MaxTypes == 3
\* longest decklist handed to the normalizer a few cards short of the minimum
MaxShortDeckLen == 3
\* most matches one vector query returns
MaxMatches == 2
\* longest pool with repeated names handed to the selector
MaxHandedPool == 3
\* most entries of a decklist handed to _identify_weak_cards_heuristic
MaxWeakDeckLen == 3
\* most entries of a decklist handed to _generate_replacement_suggestions
MaxOptDeckLen == 4
\* longest card pool retrieved for the replacement suggestions
MaxOptPool == 4

---------------------------------------------------------------------------
(* Strings *)

\* str.lower() on the strings the model uses
Lower(s) ==
    CASE s = "Commander" -> "commander"
      [] s = "COMMANDER" -> "commander"
      [] s = "Standard"  -> "standard"
      [] s = "Modern"    -> "modern"
      [] s = "Aggro"     -> "aggro"
      [] s = "CONTROL"   -> "control"
      [] OTHER           -> s

Formats == {"standard", "Standard", "modern", "commander", "Commander", "pioneer"}

Strategies == {"aggro", "Aggro", "control", "CONTROL", "midrange", "combo",
               "tempo", ""}

SecondaryStrategies == {"", "control"}

---------------------------------------------------------------------------
(* Sequences and ordered dicts *)

RECURSIVE SumSeq(_)
SumSeq(s) == IF s = <<>> THEN 0 ELSE Head(s) + SumSeq(Tail(s))

Range(s) == {s[i] : i \in DOMAIN s}

Min(a, b) == IF a < b THEN a ELSE b

\* name in d
DictHas(d, n) == \E i \in DOMAIN d : d[i].name = n

\* d.get(n, 0)
DictGet(d, n) ==
    IF DictHas(d, n) THEN d[CHOOSE i \in DOMAIN d : d[i].name = n].qty ELSE 0

\* d[n] = q : overwrite in place, or append a new key at the end
DictSet(d, n, q) ==
    IF DictHas(d, n)
    THEN [i \in DOMAIN d |-> IF d[i].name = n THEN [name |-> n, qty |-> q] ELSE d[i]]
    ELSE Append(d, [name |-> n, qty |-> q])

\* list(d.keys())
DictKeys(d) == [i \in DOMAIN d |-> d[i].name]

\* sum(d.values())
DictTotal(d) == SumSeq([i \in DOMAIN d |-> d[i].qty])

RECURSIVE DictUpdate(_, _)
\* d.update(e)
DictUpdate(d, e) ==
    IF e = <<>> THEN d
    ELSE DictUpdate(DictSet(d, Head(e).name, Head(e).qty), Tail(e))

\* a dict has no key twice
IsDict(d) == \A i, j \in DOMAIN d : d[i].name = d[j].name => i = j

---------------------------------------------------------------------------
(* Card catalog (card_db.get_card_by_name) *)

FullLegal == [f \in {"standard", "modern", "commander", "pioneer"} |-> "legal"]

Card(n, ts, sup) ==
    [name |-> n, types |-> ts, supertypes |-> sup,
     has_legality |-> TRUE, legality |-> FullLegal]

TenInstants ==
    <<"Opt01", "Opt02", "Opt03", "Opt04", "Opt05",
      "Opt06", "Opt07", "Opt08", "Opt09", "Opt10">>

BasicLandNames == <<"Plains", "Island", "Swamp", "Mountain", "Forest">>

Catalog ==
    [n \in {"Bolt", "Bear", "Golem", "Relic", "Ingot", "Scheme", "Tower", "Lotus",
            "Wastes", "Titan", "Wall", "Giant", "Spirit", "Ogre"}
           \cup Range(TenInstants) \cup Range(BasicLandNames) |->
        CASE n = "Bolt"   -> Card(n, <<"Instant">>, {})
          [] n = "Bear"   -> Card(n, <<"Creature">>, {})
          [] n \in {"Titan", "Wall", "Giant", "Spirit", "Ogre"}
                          -> Card(n, <<"Creature">>, {})
          [] n = "Golem"  -> Card(n, <<"Artifact", "Creature">>, {})
          [] n = "Relic"  -> Card(n, <<"Artifact">>, {})
          [] n = "Ingot"  -> Card(n, <<"Artifact">>, {})
          [] n = "Scheme" -> [Card(n, <<"Conspiracy">>, {}) EXCEPT !.has_legality = FALSE]
          [] n = "Tower"  -> Card(n, <<"Land">>, {})
          [] n = "Wastes" -> Card(n, <<"Land">>, {"Basic"})
          [] n = "Lotus"  -> [Card(n, <<"Artifact">>, {}) EXCEPT
                                !.legality = [f \in {"commander"} |-> "not_legal"]]
          [] n \in Range(TenInstants)    -> Card(n, <<"Instant">>, {})
          [] n \in Range(BasicLandNames) -> Card(n, <<"Land">>, {"Basic"})]

\* card_db.get_card_by_name(name) returns a card, or nothing for an unknown name
KnownCard(n) == n \in DOMAIN Catalog

\* the "mana_value" key of the cards that carry one
ManaValueField ==
    [n \in {"Bolt", "Golem", "Relic", "Ingot", "Tower", "Titan", "Wall", "Giant",
            "Spirit", "Ogre"} \cup Range(TenInstants) |->
        CASE n = "Golem" -> 7
          [] n \in {"Titan", "Wall", "Giant"} -> 5
          [] n \in {"Spirit", "Ogre"} -> 6
          [] n = "Relic" -> 6
          [] n = "Ingot" -> 8
          [] n = "Tower" -> 0
          [] OTHER       -> 1]

\* the "cmc" key of the cards that carry one
CmcField ==
    [n \in {"Bear", "Relic", "Lotus"} |->
        CASE n = "Bear"  -> 2
          [] n = "Relic" -> 6
          [] n = "Lotus" -> 0]

\* card_data.get("mana_value", card_data.get("cmc", 0))
ManaValue(n) ==
    IF n \in DOMAIN ManaValueField THEN ManaValueField[n]
    ELSE IF n \in DOMAIN CmcField THEN CmcField[n]
    ELSE 0

\* the "power" key of the creatures that carry one (a VARCHAR column, empty
\* for a card without power)
PowerField ==
    [n \in {"Titan", "Wall", "Giant", "Spirit", "Ogre"} |->
        CASE n = "Titan"  -> "10"
          [] n = "Wall"   -> "0"
          [] n = "Giant"  -> "3"
          [] n = "Spirit" -> ""
          [] n = "Ogre"   -> "6"]

\* the "toughness" key of the creatures that carry one
ToughnessField ==
    [n \in {"Titan", "Wall", "Giant", "Spirit", "Ogre"} |->
        CASE n = "Titan"  -> "10"
          [] n = "Wall"   -> "4"
          [] n = "Giant"  -> "3"
          [] n = "Spirit" -> ""
          [] n = "Ogre"   -> "6"]

\* int(s) for the strings of the two tables
IntOf(s) ==
    CASE s = "0" -> 0 [] s = "3" -> 3 [] s = "4" -> 4 [] s = "6" -> 6
      [] s = "10" -> 10

---------------------------------------------------------------------------
(* DeckConstructorService: helpers *)

\* a precedence that looks for Artifact before Creature
PrimaryTypesArtifactFirst ==
    <<"Artifact", "Creature", "Planeswalker", "Instant", "Sorcery",
      "Enchantment", "Land">>

PrimaryTypes ==
    <<"Creature", "Planeswalker", "Instant", "Sorcery", "Artifact",
      "Enchantment", "Land">>

_get_primary_type(card) ==
    IF \E i \in DOMAIN PrimaryTypes : PrimaryTypes[i] \in Range(card.types)
    THEN PrimaryTypes[CHOOSE i \in DOMAIN PrimaryTypes :
                        /\ PrimaryTypes[i] \in Range(card.types)
                        /\ \A j \in 1..(i - 1) : PrimaryTypes[j] \notin Range(card.types)]
    ELSE "Other"

_is_card_legal(card, fmt) ==
    IF card.has_legality
    THEN (IF Lower(fmt) \in DOMAIN card.legality
          THEN card.legality[Lower(fmt)] ELSE "not_legal") # "not_legal"
    ELSE TRUE

_is_basic_land(n) == n \in Range(BasicLandNames)

\* max_copies = 1 if format_name.lower() == "commander" else 4
MaxCopies(fmt) == IF Lower(fmt) = "commander" THEN 1 ELSE 4

\* min_cards = 100 if format_name.lower() == "commander" else 60
MinCards(fmt) == IF Lower(fmt) = "commander" THEN 100 ELSE 60

---------------------------------------------------------------------------
(* Composition Planner *)

CompositionTypes ==
    {"Creature", "Planeswalker", "Instant", "Sorcery", "Artifact",
     "Enchantment", "Land"}

NonLandCount(fmt) == IF Lower(fmt) = "commander" THEN 36 ELSE 36

LandCount(fmt) == IF Lower(fmt) = "commander" THEN 24 ELSE 24

\* int(non_land_count * p) for a percentage p given in hundredths
IntPct(n, pct) == (n * pct) \div 100

\* strategy -> percentages of Creature, Instant, Sorcery, Artifact,
\* Enchantment, Planeswalker
\* a comparison of the strategy as written, without lower()
WeightsCaseSensitive(strategy) ==
    CASE strategy = "aggro"    -> <<60, 15, 10, 5, 5, 5>>
      [] strategy = "control"  -> <<25, 30, 20, 5, 10, 10>>
      [] strategy = "midrange" -> <<45, 20, 15, 5, 5, 10>>
      [] strategy = "combo"    -> <<30, 25, 20, 10, 10, 5>>
      [] OTHER                 -> <<40, 20, 15, 10, 10, 5>>

Weights(strategy) ==
    CASE Lower(strategy) = "aggro"    -> <<60, 15, 10, 5, 5, 5>>
      [] Lower(strategy) = "control"  -> <<25, 30, 20, 5, 10, 10>>
      [] Lower(strategy) = "midrange" -> <<45, 20, 15, 5, 5, 10>>
      [] Lower(strategy) = "combo"    -> <<30, 25, 20, 10, 10, 5>>
      [] OTHER                        -> <<40, 20, 15, 10, 10, 5>>

_determine_deck_composition(primary, secondary, fmt) ==
    LET n == NonLandCount(fmt)
        w == Weights(primary)
    IN  [t \in CompositionTypes |->
            CASE t = "Creature"     -> IntPct(n, w[1])
              [] t = "Instant"      -> IntPct(n, w[2])
              [] t = "Sorcery"      -> IntPct(n, w[3])
              [] t = "Artifact"     -> IntPct(n, w[4])
              [] t = "Enchantment"  -> IntPct(n, w[5])
              [] t = "Planeswalker" -> IntPct(n, w[6])
              [] t = "Land"         -> LandCount(fmt)]

NoComposition == [t \in CompositionTypes |-> 0]

\* sum(composition.values())
CompositionTotal(c) ==
    c["Creature"] + c["Planeswalker"] + c["Instant"] + c["Sorcery"]
      + c["Artifact"] + c["Enchantment"] + c["Land"]

---------------------------------------------------------------------------
(* Seeding of the pinned cards (construct_deck, lines 36-43) *)

RECURSIVE SeedDeck(_, _, _)
SeedDeck(d, names, fmt) ==
    IF names = <<>> THEN d
    ELSE LET n == Head(names)
         IN  IF KnownCard(n) /\ _is_card_legal(Catalog[n], fmt)
             THEN SeedDeck(DictSet(d, n, 1), Tail(names), fmt)
             ELSE SeedDeck(d, Tail(names), fmt)

---------------------------------------------------------------------------
(* Card Selector *)

\* synergy_scores.get(name, 0)
ScoreOf(scores, n) == IF n \in DOMAIN scores THEN scores[n] ELSE 0

\* primary type of a pool card
PoolType(n) == _get_primary_type(Catalog[n])

\* keys of _group_cards_by_type(card_pool), in insertion order
RECURSIVE GroupKeys(_, _)
GroupKeys(pool, seen) ==
    IF pool = <<>> THEN seen
    ELSE IF PoolType(Head(pool)) \in Range(seen)
         THEN GroupKeys(Tail(pool), seen)
         ELSE GroupKeys(Tail(pool), Append(seen, PoolType(Head(pool))))

\* _group_cards_by_type(card_pool)[t]
GroupOf(pool, t) == SelectSeq(pool, LAMBDA n : PoolType(n) = t)

\* a descending sort that puts cards of equal score in reverse pool order
SortedCardsReversingTies(cards, scores) ==
    LET before(i, j) == \/ ScoreOf(scores, cards[i]) > ScoreOf(scores, cards[j])
                        \/ /\ ScoreOf(scores, cards[i]) = ScoreOf(scores, cards[j])
                           /\ i > j
        rank(j) == 1 + Cardinality({i \in DOMAIN cards : before(i, j)})
    IN  [k \in DOMAIN cards |-> cards[CHOOSE j \in DOMAIN cards : rank(j) = k]]

\* sorted(cards, key=score, reverse=True): descending and stable
SortedCards(cards, scores) ==
    LET before(i, j) == \/ ScoreOf(scores, cards[i]) > ScoreOf(scores, cards[j])
                        \/ /\ ScoreOf(scores, cards[i]) = ScoreOf(scores, cards[j])
                           /\ i < j
        rank(j) == 1 + Cardinality({i \in DOMAIN cards : before(i, j)})
    IN  [k \in DOMAIN cards |-> cards[CHOOSE j \in DOMAIN cards : rank(j) = k]]

\* the score above which further copies are added, in hundredths (0.8)
HighSynergy == 80

\* a selector that lets the further copies reach max_copies
AdditionalCopiesUpToMax(maxc, target, added) == Min(maxc, target - added)

\* a selector that hands out max_copies - 1 further copies whatever room the
\* category has left
AdditionalCopiesIgnoringTarget(maxc, target, added) == maxc - 1

\* additional_copies of line 227, given added_counts after the first copy
AdditionalCopies(maxc, target, added) == Min(maxc - 1, target - added)

RECURSIVE SelectLoop(_, _, _, _, _, _)
\* for card in sorted_cards: ... (lines 212-229); returns the deck and the
\* category's added count
SelectLoop(d, added, cards, target, scores, maxc) ==
    IF cards = <<>> \/ added >= target THEN [deck |-> d, added |-> added]
    ELSE LET n == Head(cards)
             extra == IF ScoreOf(scores, n) > HighSynergy
                      THEN AdditionalCopies(maxc, target, added + 1) ELSE 0
         IN  IF DictHas(d, n)
             THEN SelectLoop(d, added, Tail(cards), target, scores, maxc)
             ELSE SelectLoop(DictSet(d, n, 1 + extra), added + 1 + extra,
                             Tail(cards), target, scores, maxc)

\* a selector that starts every category at zero, whatever is pinned
SeededCountIgnoringPinned(existing, t) == 0

\* added_counts[t] after the pass over the existing deck (lines 189-196)
SeededCount(existing, t) ==
    SumSeq([i \in DOMAIN existing |->
              IF KnownCard(existing[i].name)
                 /\ _get_primary_type(Catalog[existing[i].name]) = t
              THEN existing[i].qty ELSE 0])

RECURSIVE SelectGroups(_, _, _, _, _, _, _)
\* for card_type, cards in card_groups.items(): ... (lines 199-229)
SelectGroups(d, keys, pool, existing, scores, comp, fmt) ==
    IF keys = <<>> THEN d
    ELSE LET t == Head(keys)
         IN  IF t = "Land"
             THEN SelectGroups(d, Tail(keys), pool, existing, scores, comp, fmt)
             ELSE SelectGroups(
                     SelectLoop(d, SeededCount(existing, t),
                                SortedCards(GroupOf(pool, t), scores),
                                comp[t], scores, MaxCopies(fmt)).deck,
                     Tail(keys), pool, existing, scores, comp, fmt)

\* added_counts has the keys of composition only: indexing it with the
\* primary type "Other" raises KeyError (lines 196 and 213)
SelectRaises(existing, pool) ==
    \/ \E i \in DOMAIN existing :
          /\ KnownCard(existing[i].name)
          /\ _get_primary_type(Catalog[existing[i].name]) \notin CompositionTypes
    \/ \E i \in DOMAIN pool : PoolType(pool[i]) \notin CompositionTypes

\* a selector that forgets to skip the Land group and fills it like the
\* others
SelectCardsFillingLands(existing, pool, scores, comp, fmt) ==
    SelectLoop(SelectGroups(existing, GroupKeys(pool, <<>>), pool, existing,
                            scores, comp, fmt),
               SeededCount(existing, "Land"),
               SortedCards(GroupOf(pool, "Land"), scores),
               comp["Land"], scores, MaxCopies(fmt)).deck

_select_cards(existing, pool, scores, comp, fmt) ==
    SelectGroups(existing, GroupKeys(pool, <<>>), pool, existing, scores, comp, fmt)

---------------------------------------------------------------------------
(* Quantity Normalizer *)

\* a first phase that skips no entry
IsBasicByCatalogNever(n) == FALSE

IsBasicByCatalog(n) == KnownCard(n) /\ "Basic" \in Catalog[n].supertypes

\* a top-up loop that forgets the test on current_size
TopUpCopiesIgnoringMinimum(q, size, fmt) ==
    IF q < MaxCopies(fmt) THEN MaxCopies(fmt) - q ELSE 0

\* copies the inner while loop (lines 256-258) adds to an entry of quantity q
TopUpCopies(q, size, fmt) ==
    IF q < MaxCopies(fmt) /\ size < MinCards(fmt)
    THEN Min(MaxCopies(fmt) - q, MinCards(fmt) - size)
    ELSE 0

RECURSIVE TopUp(_, _, _, _)
\* for card_name in list(deck.keys()): ... (lines 246-258)
TopUp(d, keys, size, fmt) ==
    IF keys = <<>> \/ size >= MinCards(fmt) THEN d
    ELSE LET n == Head(keys)
             k == TopUpCopies(DictGet(d, n), size, fmt)
         IN  IF IsBasicByCatalog(n)
             THEN TopUp(d, Tail(keys), size, fmt)
             ELSE TopUp(DictSet(d, n, DictGet(d, n) + k), Tail(keys), size + k, fmt)

\* [name for name in deck if self._is_basic_land(name)]
BasicLandsIn(d) == SelectSeq(DictKeys(d), _is_basic_land)

\* deck["Plains"] = 0 ... deck["Forest"] = 0 (lines 269-273)
Placeholders(d) ==
    DictUpdate(d, [i \in DOMAIN BasicLandNames |-> [name |-> BasicLandNames[i], qty |-> 0]])

\* while current_size < min_cards: ... (lines 277-282): iteration number
\* land_index adds one copy of basic_lands[land_index % len(basic_lands)],
\* for land_index = 0 .. min_cards - size - 1
PadBasics(d, lands, size, fmt) ==
    LET rounds == 0..(MinCards(fmt) - size - 1)
        added(n) == Cardinality({land_index \in rounds :
                                   lands[(land_index % Len(lands)) + 1] = n})
    IN  [i \in DOMAIN d |-> [name |-> d[i].name, qty |-> d[i].qty + added(d[i].name)]]

\* a normalizer that plants the zero-quantity basic lands before it looks at
\* the size of the deck
AdjustPlantingPlaceholdersFirst(d, fmt) ==
    LET d1 == IF DictTotal(d) < MinCards(fmt)
              THEN TopUp(d, DictKeys(d), DictTotal(d), fmt) ELSE d
        d2 == IF BasicLandsIn(d1) = <<>> THEN Placeholders(d1) ELSE d1
        lands == IF BasicLandsIn(d1) = <<>> THEN BasicLandNames ELSE BasicLandsIn(d1)
    IN  IF DictTotal(d1) < MinCards(fmt)
        THEN PadBasics(d2, lands, DictTotal(d1), fmt)
        ELSE d2

_adjust_quantities(d, fmt) ==
    LET d1 == IF DictTotal(d) < MinCards(fmt)
              THEN TopUp(d, DictKeys(d), DictTotal(d), fmt) ELSE d
        d2 == IF BasicLandsIn(d1) = <<>> THEN Placeholders(d1) ELSE d1
        lands == IF BasicLandsIn(d1) = <<>> THEN BasicLandNames ELSE BasicLandsIn(d1)
    IN  IF DictTotal(d1) < MinCards(fmt)
        THEN PadBasics(d2, lands, DictTotal(d1), fmt)
        ELSE d1

---------------------------------------------------------------------------
(* Mana Base Builder (ManaBaseCalculator) *)

\* round(num / den) for den > 0: Python rounds a tie to the even neighbour
RoundHalfEven(num, den) ==
    LET q == num \div den
        r == num - q * den
    IN  IF 2 * r < den THEN q
        ELSE IF 2 * r > den THEN q + 1
        ELSE IF q % 2 = 0 THEN q ELSE q + 1

\* format_base.get(format_name.lower(), 24)
FormatBase(fmt) ==
    CASE Lower(fmt) = "standard"  -> 24
      [] Lower(fmt) = "modern"    -> 22
      [] Lower(fmt) = "commander" -> 38
      [] Lower(fmt) = "legacy"    -> 20
      [] Lower(fmt) = "vintage"   -> 18
      [] OTHER                    -> 24

\* sum(mana_requirements.values())
RECURSIVE SumOver(_, _)
SumOver(f, S) ==
    IF S = {} THEN 0
    ELSE LET x == CHOOSE y \in S : TRUE IN f[x] + SumOver(f, S \ {x})

TotalPips(reqs) == SumOver(reqs, DOMAIN reqs)

\* an adjustment centred on an average of 3.0 instead of 2.5
CmcAdjustmentAroundThree(reqs) ==
    RoundHalfEven(2 * TotalPips(reqs) - 6 * Cardinality(DOMAIN reqs),
                  Cardinality(DOMAIN reqs))

\* round((avg_cmc - 2.5) * 2) with avg_cmc = sum / len, as the rounding of
\* the fraction (2 * sum - 5 * len) / len
CmcAdjustment(reqs) ==
    RoundHalfEven(2 * TotalPips(reqs) - 5 * Cardinality(DOMAIN reqs),
                  Cardinality(DOMAIN reqs))

\* _calculate_total_land_count, for a non-empty mana_requirements
_calculate_total_land_count(fmt, reqs) == FormatBase(fmt) + CmcAdjustment(reqs)

\* len(mana_requirements) = 0 makes line 87 divide by zero
CountRaises(reqs) == DOMAIN reqs = {}

\* f"Basic {color}"
BasicName(c) ==
    CASE c = "W" -> "Basic W" [] c = "U" -> "Basic U" [] c = "B" -> "Basic B"
      [] c = "R" -> "Basic R" [] c = "G" -> "Basic G"

\* mana_requirements.get(color, 0)
PipsOf(reqs, c) == IF c \in DOMAIN reqs THEN reqs[c] ELSE 0

\* lands[:n]
Take(lands, n) == SubSeq(lands, 1, Min(n, Len(lands)))

RECURSIVE AddLands(_, _)
\* for land in lands: distribution[name] = distribution.get(name, 0) + 1
AddLands(d, lands) ==
    IF lands = <<>> THEN d
    ELSE AddLands(DictSet(d, Head(lands), DictGet(d, Head(lands)) + 1), Tail(lands))

\* count = round(remaining * color_proportions[color]) (line 117)
BasicCount(remaining, reqs, c) ==
    RoundHalfEven(remaining * PipsOf(reqs, c), TotalPips(reqs))

RECURSIVE AddBasics(_, _, _, _)
\* for color in deck_colors: ... (lines 115-118)
AddBasics(d, colors, remaining, reqs) ==
    IF colors = <<>> THEN d
    ELSE LET basic_name == BasicName(Head(colors))
         IN  AddBasics(DictSet(d, basic_name,
                               DictGet(d, basic_name)
                                 + BasicCount(remaining, reqs, Head(colors))),
                       Tail(colors), remaining, reqs)

\* what _distribute_lands raises: ZeroDivisionError at line 96 when the
\* pips sum to 0 and there is a color to compute a proportion for,
\* IndexError at line 127 when deck_colors is empty
DistributeError(colors, reqs) ==
    IF colors # <<>> /\ TotalPips(reqs) = 0 THEN "ZeroDivisionError"
    ELSE IF colors = <<>> THEN "IndexError"
    ELSE ""

\* _distribute_lands when it does not raise
_distribute_lands(cats, total, colors, reqs) ==
    IF Len(colors) > 1
    THEN LET d1 == AddLands(<<>>, Take(cats.dual_lands, Min(12, total \div 3)))
             d2 == AddLands(d1, Take(cats.fetch_lands, Min(8, total \div 4)))
         IN  AddBasics(d2, colors, total - DictTotal(d2), reqs)
    ELSE LET d1 == AddLands(<<>>, Take(cats.utility_lands, Min(4, total \div 6)))
             basic_name == BasicName(colors[1])
         IN  DictSet(d1, basic_name, DictGet(d1, basic_name) + (total - DictTotal(d1)))

---------------------------------------------------------------------------
(* SynergyDetector *)

\* position of a mechanic in the lexicographic order sorted() uses
StringRank(m) == CASE m = "flying" -> 1 [] m = "haste" -> 2 [] m = "lifelink" -> 3

\* sorted(mechanics)
SortedStrings(q) ==
    LET before(i, j) == \/ StringRank(q[i]) < StringRank(q[j])
                        \/ StringRank(q[i]) = StringRank(q[j]) /\ i < j
        rank(j) == 1 + Cardinality({i \in DOMAIN q : before(i, j)})
    IN  [k \in DOMAIN q |-> q[CHOOSE j \in DOMAIN q : rank(j) = k]]

\* '-'.join(q), as the sequence of its pieces
RECURSIVE JoinDash(_)
JoinDash(q) ==
    IF Len(q) <= 1 THEN q
    ELSE <<Head(q), "-">> \o JoinDash(Tail(q))

\* cache_key = f"{strategy}_{'-'.join(sorted(mechanics))}", as the sequence
\* of its pieces
CacheKey(strategy, mechs) == <<strategy, "_">> \o JoinDash(SortedStrings(mechs))

\* cosine similarity of the card's and the strategy prompt's embeddings, in
\* tenths: the answer of the embedding service, a function of the two texts
Relevance(n, strategy, mechs) ==
    CASE n = "Bolt"  -> IF strategy = "aggro" THEN 9 ELSE 5
      [] n = "Relic" -> IF strategy = "control" THEN 9 ELSE 3
      [] n = "Golem" -> IF mechs = <<>> THEN 8 ELSE 9
      [] OTHER       -> 2

\* synergy_scores.get(card_name, 0.0) of the LLM's JSON answer, in tenths;
\* the answer has no entry for "Scheme"
LlmSynergy(n, strategy, mechs) ==
    CASE n = "Bolt"   -> 9
      [] n = "Relic"  -> IF strategy = "control" THEN 9 ELSE 2
      [] n = "Golem"  -> 8
      [] n = "Scheme" -> 0
      [] OTHER        -> 1

\* combined_scores of lines 60-63, in hundredths: 0.7 * relevance + 0.3 * synergy
CombinedScores(pool, strategy, mechs) ==
    [n \in Range(pool) |->
        7 * Relevance(n, strategy, mechs) + 3 * LlmSynergy(n, strategy, mechs)]

_filter_synergies_for_pool(scores, pool) ==
    [n \in DOMAIN scores \cap Range(pool) |-> scores[n]]

\* value returned by calculate_synergies
SynergiesResult(cache, pool, strategy, mechs) ==
    IF CacheKey(strategy, mechs) \in DOMAIN cache
    THEN _filter_synergies_for_pool(cache[CacheKey(strategy, mechs)], pool)
    ELSE CombinedScores(pool, strategy, mechs)

\* self.synergy_cache after calculate_synergies
SynergiesCache(cache, pool, strategy, mechs) ==
    IF CacheKey(strategy, mechs) \in DOMAIN cache
    THEN cache
    ELSE [k \in DOMAIN cache \cup {CacheKey(strategy, mechs)} |->
            IF k = CacheKey(strategy, mechs)
            THEN CombinedScores(pool, strategy, mechs) ELSE cache[k]]

---------------------------------------------------------------------------
(* Mana curve (calculate_mana_curve) *)

\* str(n) of a small non-negative integer
Str(n) == <<"0", "1", "2", "3", "4", "5", "6", "7", "8", "9">>[n + 1]

\* only values above 7 share the last bucket
BucketSplitAboveSeven(v) == IF v > 7 THEN "7+" ELSE Str(v)

\* the key of the curve a mana value is counted under
Bucket(v) == IF v >= 7 THEN "7+" ELSE Str(v)

\* "Land" in card_data.get("types", [])
IsLandCard(n) == "Land" \in Range(Catalog[n].types)

RECURSIVE CurveLoop(_, _)
\* the loop over deck.items(), filling the defaultdict(int)
CurveLoop(d, curve) ==
    IF d = <<>> THEN curve
    ELSE LET card_name == Head(d).name
             count     == Head(d).qty
             key       == Bucket(ManaValue(card_name))
         IN  IF KnownCard(card_name) /\ ~IsLandCard(card_name)
             THEN CurveLoop(Tail(d),
                            DictSet(curve, key, DictGet(curve, key) + count))
             ELSE CurveLoop(Tail(d), curve)

calculate_mana_curve(d) == CurveLoop(d, <<>>)

\* DeckOptimizerService._analyze_deck: card_list holds the entries of the
\* decklist the catalog knows
CardList(d) == SelectSeq(d, LAMBDA e : KnownCard(e.name))

RECURSIVE OptimizerCurveLoop(_, _)
OptimizerCurveLoop(card_list, curve) ==
    IF card_list = <<>> THEN curve
    ELSE LET card == Head(card_list)
             key  == Bucket(ManaValue(card.name))
         IN  IF IsLandCard(card.name)
             THEN OptimizerCurveLoop(Tail(card_list), curve)
             ELSE OptimizerCurveLoop(Tail(card_list),
                                     DictSet(curve, key, DictGet(curve, key) + card.qty))

\* DeckOptimizerService._calculate_mana_curve
_calculate_mana_curve(card_list) == OptimizerCurveLoop(card_list, <<>>)

---------------------------------------------------------------------------
(* DeckOptimizerService: weak cards and replacement suggestions *)

\* "aggro" in analysis.get("overall_strategy_identification", "").lower(),
\* for the strategy texts of the model
MentionsAggro(a) == Lower(a.overall_strategy_identification) = "aggro"

\* mv > avg_mv + 2 with avg_mv = total_mv / total_cards if total_cards > 0
\* else 0 (lines 262-271, 282), both sides multiplied by total_cards
AboveAverage(mv, card_list) ==
    LET total_mv ==
            SumSeq([i \in DOMAIN card_list |->
                      IF IsLandCard(card_list[i].name) THEN 0
                      ELSE ManaValue(card_list[i].name) * card_list[i].qty])
        total_cards ==
            SumSeq([i \in DOMAIN card_list |->
                      IF IsLandCard(card_list[i].name) THEN 0 ELSE card_list[i].qty])
    IN  IF total_cards > 0
        THEN mv * total_cards > total_mv + 2 * total_cards
        ELSE mv > 2

\* the condition of line 289 as Python parses it:
\*   int(power) if power else ((0 + int(toughness)) if toughness else (0 < mv * 2))
\* where card["data"].get("power", 0) is false for the default 0 and for the
\* empty string
LowImpact(n) ==
    LET power     == n \in DOMAIN PowerField /\ PowerField[n] # ""
        toughness == n \in DOMAIN ToughnessField /\ ToughnessField[n] # ""
    IN  IF power THEN IntOf(PowerField[n]) # 0
        ELSE IF toughness THEN 0 + IntOf(ToughnessField[n]) # 0
        ELSE 0 < ManaValue(n) * 2

RECURSIVE WeakLoop(_, _, _, _)
\* for card in card_list: ... (lines 274-290)
WeakLoop(rest, card_list, a, weak) ==
    IF rest = <<>> THEN weak
    ELSE LET c  == Head(rest)
             mv == ManaValue(c.name)
             w1 == IF MentionsAggro(a) /\ AboveAverage(mv, card_list)
                   THEN Append(weak, c) ELSE weak
             w2 == IF mv >= 5 /\ "Creature" \in Range(Catalog[c.name].types)
                      /\ LowImpact(c.name)
                   THEN Append(w1, c) ELSE w1
         IN  IF IsLandCard(c.name)
             THEN WeakLoop(Tail(rest), card_list, a, weak)
             ELSE WeakLoop(Tail(rest), card_list, a, w2)

\* the weak cards, sorted by x["data"].get("mana_value", 0) in descending
\* order, stably (line 292)
_identify_weak_cards_heuristic(decklist, a) ==
    LET q == WeakLoop(CardList(decklist), CardList(decklist), a, <<>>)
        key(c) == IF c.name \in DOMAIN ManaValueField
                  THEN ManaValueField[c.name] ELSE 0
        before(i, j) == \/ key(q[i]) > key(q[j])
                        \/ key(q[i]) = key(q[j]) /\ i < j
        rank(j) == 1 + Cardinality({i \in DOMAIN q : before(i, j)})
    IN  [k \in DOMAIN q |-> q[CHOOSE j \in DOMAIN q : rank(j) = k]]

\* _find_best_replacements(weak_card, card_pool, ...): the pool cards of
\* similar mana value sharing a type, or of similar mana value alone when
\* there are none; the first 20 scored, sorted by descending score (stably),
\* the best 3 returned
_find_best_replacements(weak_card, pool, scores) ==
    LET card_mv    == ManaValue(weak_card.name)
        card_types == Catalog[weak_card.name].types
        min_mv     == IF card_mv - 1 > 0 THEN card_mv - 1 ELSE 0
        max_mv     == card_mv + 1
        types(n)   == IF KnownCard(n) THEN Catalog[n].types ELSE <<>>
        window(n)  == min_mv <= ManaValue(n) /\ ManaValue(n) <= max_mv
        similar    == SelectSeq(pool, LAMBDA n :
                         /\ window(n)
                         /\ \E i \in DOMAIN card_types : card_types[i] \in Range(types(n)))
        filtered   == IF similar = <<>> THEN SelectSeq(pool, window) ELSE similar
        q          == [i \in DOMAIN Take(filtered, 20) |->
                         [name |-> filtered[i], score |-> ScoreOf(scores, filtered[i])]]
        before(i, j) == \/ q[i].score > q[j].score
                        \/ q[i].score = q[j].score /\ i < j
        rank(j)    == 1 + Cardinality({i \in DOMAIN q : before(i, j)})
    IN  Take([k \in DOMAIN q |-> q[CHOOSE j \in DOMAIN q : rank(j) = k]], 3)

\* weak_cards of lines 184-204: the cards of the decklist the analysis names
\* in its weaknesses or improvement areas, or the heuristic's when it names
\* none
WeakCards(decklist, a) ==
    LET mentioned == SelectSeq(CardList(decklist), LAMBDA c : c.name \in a.mentioned)
    IN  IF mentioned = <<>>
        THEN _identify_weak_cards_heuristic(decklist, a)
        ELSE mentioned

_generate_replacement_suggestions(decklist, a, pool, scores) ==
    LET weak          == Take(WeakCards(decklist, a), 5)
        filtered_pool == SelectSeq(pool, LAMBDA n : ~DictHas(decklist, n))
    IN  [i \in DOMAIN weak |->
            [card_to_replace |-> weak[i].name,
             quantity        |-> weak[i].qty,
             replacements    |-> _find_best_replacements(weak[i], filtered_pool,
                                                         scores)]]

---------------------------------------------------------------------------
(* Values of the variables a specification does not use *)

NoPlan ==
    /\ primary_strategy = ""
    /\ secondary_strategy = ""
    /\ composition = NoComposition

NoScores == [n \in {} |-> 0]

EmptyCache == [k \in {} |-> NoScores]

NoPool ==
    /\ specific_cards = <<>>
    /\ card_pool = <<>>
    /\ synergy_scores = NoScores

NoCache ==
    /\ mechanics = <<>>
    /\ synergy_cache = EmptyCache

NoDeck ==
    /\ existing_deck = <<>>
    /\ deck = <<>>

NoLands == [dual_lands |-> <<>>, fetch_lands |-> <<>>, utility_lands |-> <<>>]

NoManaBase ==
    /\ deck_colors = <<>>
    /\ mana_requirements = <<>>
    /\ land_categories = NoLands
    /\ total_land_count = 0
    /\ land_distribution = <<>>

NoCurve == mana_curve = <<>>

NoCalls == calls = <<>>

NoCard ==
    /\ classified_card = [types |-> <<>>]
    /\ primary_type = ""

NoMatches == matches = [strategy |-> <<>>, win_condition |-> <<>>]

NoOptimizer ==
    /\ analysis = [overall_strategy_identification |-> "", mentioned |-> {}]
    /\ weak_cards = <<>>
    /\ suggestions = <<>>
    /\ replacement_scores = NoScores

---------------------------------------------------------------------------
(* Specification of the Composition Planner called on its own *)

InitPlan ==
    /\ pc = "plan"
    /\ error = ""
    /\ format_name \in Formats
    /\ primary_strategy \in Strategies
    /\ secondary_strategy \in SecondaryStrategies
    /\ composition = NoComposition
    /\ NoPool /\ NoCache /\ NoDeck /\ NoManaBase
    /\ NoCurve /\ NoCalls
    /\ NoCard /\ NoMatches /\ NoOptimizer

DetermineDeckComposition ==
    /\ pc = "plan"
    /\ composition' = _determine_deck_composition(primary_strategy,
                                                   secondary_strategy, format_name)
    /\ pc' = "planned"
    /\ UNCHANGED <<error, format_name, primary_strategy, secondary_strategy,
                   mechanics, deck_colors, specific_cards, card_pool,
                   synergy_scores, synergy_cache, existing_deck, deck,
                   mana_requirements, land_categories, total_land_count,
                   land_distribution>>
    /\ UNCHANGED <<mana_curve, calls>>
    /\ UNCHANGED <<classified_card, primary_type, matches, analysis, weak_cards,
                   suggestions, replacement_scores>>

NextPlan == DetermineDeckComposition

SpecPlan == InitPlan /\ [][NextPlan]_vars

---------------------------------------------------------------------------
(* Specification of the Quantity Normalizer called on its own *)

Entry(n, q) == [name |-> n, qty |-> q]

\* entries of the decklists handed to _adjust_quantities: spells, basic
\* lands, a name the catalog does not know, and the "Basic R" the mana base
\* builder emits
AdjustEntries ==
    {Entry("Bolt", 1), Entry("Bolt", 4), Entry("Relic", 2), Entry("Ghost", 1),
     Entry("Island", 1), Entry("Island", 57), Entry("Forest", 20),
     Entry("Wastes", 3), Entry("Basic R", 24), Entry("Basic R", 58)}

RECURSIVE DictsUpTo(_)
\* the dicts of at most n entries drawn from AdjustEntries
DictsUpTo(n) ==
    IF n = 0 THEN {<<>>}
    ELSE DictsUpTo(n - 1) \cup
         {Append(d, e) : d \in {x \in DictsUpTo(n - 1) : Len(x) = n - 1},
                         e \in AdjustEntries}

InputDecks == {d \in DictsUpTo(MaxDeckLen) : IsDict(d)}

InitAdjust ==
    /\ pc = "adjust"
    /\ error = ""
    /\ format_name \in Formats
    /\ deck \in InputDecks
    /\ existing_deck = deck
    /\ NoPlan /\ NoPool /\ NoCache /\ NoManaBase
    /\ NoCurve /\ NoCalls
    /\ NoCard /\ NoMatches /\ NoOptimizer

AdjustQuantities ==
    /\ pc \in {"adjust", "selected", "adjusted"}
    /\ existing_deck' = deck
    /\ deck' = _adjust_quantities(deck, format_name)
    /\ pc' = "adjusted"
    /\ UNCHANGED <<error, format_name, primary_strategy, secondary_strategy,
                   mechanics, deck_colors, specific_cards, card_pool,
                   synergy_scores, synergy_cache, composition,
                   mana_requirements, land_categories, total_land_count,
                   land_distribution>>
    /\ UNCHANGED <<mana_curve, calls>>
    /\ UNCHANGED <<classified_card, primary_type, matches, analysis, weak_cards,
                   suggestions, replacement_scores>>

NextAdjust == AdjustQuantities

SpecAdjust == InitAdjust /\ [][NextAdjust]_vars

---------------------------------------------------------------------------
(* Specification of the Card Selector, followed by the Normalizer *)

RECURSIVE SeqsUpTo(_, _)
\* the sequences of at most n elements of S
SeqsUpTo(S, n) ==
    IF n = 0 THEN {<<>>}
    ELSE SeqsUpTo(S, n - 1) \cup
         {Append(q, x) : q \in {y \in SeqsUpTo(S, n - 1) : Len(y) = n - 1}, x \in S}

PoolNames == {"Bolt", "Relic", "Ingot", "Golem", "Scheme", "Tower"}

Pools == SeqsUpTo(PoolNames, MaxPool) \cup {TenInstants}

PinnedNames == {"Relic", "Ingot", "Island", "Ghost", "Lotus"}

PinnedLists == SeqsUpTo(PinnedNames, MaxPinned)

ScoreMaps ==
    {NoScores,
     [n \in {"Bolt", "Relic", "Golem"} |->
        CASE n = "Bolt" -> 90 [] n = "Relic" -> 81 [] n = "Golem" -> 80],
     [n \in PoolNames \cup Range(TenInstants) |-> IF n = "Bolt" THEN 50 ELSE 90]}

SelectFormats == {"standard", "Commander"}

SelectStrategies == {"aggro", "control"}

InitSelect ==
    /\ pc = "select"
    /\ error = ""
    /\ format_name \in SelectFormats
    /\ primary_strategy \in SelectStrategies
    /\ secondary_strategy = ""
    /\ composition = _determine_deck_composition(primary_strategy, "", format_name)
    /\ specific_cards \in PinnedLists
    /\ card_pool \in Pools
    /\ synergy_scores \in ScoreMaps
    /\ existing_deck = SeedDeck(<<>>, specific_cards, format_name)
    /\ deck = existing_deck
    /\ NoCache /\ NoManaBase
    /\ NoCurve /\ NoCalls
    /\ NoCard /\ NoMatches /\ NoOptimizer

SelectCards ==
    /\ pc = "select"
    /\ IF SelectRaises(existing_deck, card_pool)
       THEN /\ pc' = "raised"
            /\ error' = "KeyError"
            /\ deck' = deck
       ELSE /\ pc' = "selected"
            /\ error' = error
            /\ deck' = _select_cards(existing_deck, card_pool, synergy_scores,
                                     composition, format_name)
    /\ UNCHANGED <<format_name, primary_strategy, secondary_strategy,
                   mechanics, deck_colors, specific_cards, card_pool,
                   synergy_scores, synergy_cache, composition, existing_deck,
                   mana_requirements, land_categories, total_land_count,
                   land_distribution>>
    /\ UNCHANGED <<mana_curve, calls>>
    /\ UNCHANGED <<classified_card, primary_type, matches, analysis, weak_cards,
                   suggestions, replacement_scores>>

NextSelect == SelectCards \/ AdjustQuantities

SpecSelect == InitSelect /\ [][NextSelect]_vars

---------------------------------------------------------------------------
(* Specification of the Mana Base Builder called on its own *)

ManaColors == {"W", "U", "R"}

IsInjective(q) == \A i, j \in DOMAIN q : q[i] = q[j] => i = j

ColorLists == {q \in SeqsUpTo(ManaColors, MaxColors) : IsInjective(q)}

RequiredColors == {"W", "U", "B", "R"}

Requirements == UNION {[S -> 0..MaxPips] : S \in SUBSET RequiredColors}

AllLands ==
    [dual_lands |-> <<"Guildgate", "Guildgate">>, fetch_lands |-> <<"Strand">>,
     utility_lands |-> <<"Tower">>]

LandLists == {NoLands, AllLands}

ManaFormats == {"standard", "Modern", "commander", "legacy", "vintage", "pioneer"}

InitMana ==
    /\ pc = "mana"
    /\ error = ""
    /\ format_name \in ManaFormats
    /\ deck_colors \in ColorLists
    /\ mana_requirements \in Requirements
    /\ land_categories \in LandLists
    /\ total_land_count = 0
    /\ land_distribution = <<>>
    /\ NoPlan /\ NoPool /\ NoCache /\ NoDeck
    /\ NoCurve /\ NoCalls
    /\ NoCard /\ NoMatches /\ NoOptimizer

\* calculate_mana_base(deck_colors, format_name, spell_count, mana_requirements),
\* from the categorized lands on (lines 30-48)
CalculateManaBase ==
    /\ pc = "mana"
    /\ LET err == IF CountRaises(mana_requirements) THEN "ZeroDivisionError"
                  ELSE DistributeError(deck_colors, mana_requirements)
           total == _calculate_total_land_count(format_name, mana_requirements)
       IN  IF err # ""
           THEN /\ pc' = "raised"
                /\ error' = err
                /\ UNCHANGED <<total_land_count, land_distribution>>
           ELSE /\ pc' = "mana_done"
                /\ error' = error
                /\ total_land_count' = total
                /\ land_distribution' =
                     _distribute_lands(land_categories, total, deck_colors,
                                       mana_requirements)
    /\ UNCHANGED <<format_name, primary_strategy, secondary_strategy,
                   mechanics, deck_colors, specific_cards, card_pool,
                   synergy_scores, synergy_cache, composition, existing_deck,
                   deck, mana_requirements, land_categories>>
    /\ UNCHANGED <<mana_curve, calls>>
    /\ UNCHANGED <<classified_card, primary_type, matches, analysis, weak_cards,
                   suggestions, replacement_scores>>

NextMana == CalculateManaBase

SpecMana == InitMana /\ [][NextMana]_vars

---------------------------------------------------------------------------
(* Specification of _calculate_total_land_count called on its own *)

InitCount ==
    /\ pc = "count"
    /\ error = ""
    /\ format_name \in ManaFormats
    /\ mana_requirements \in Requirements
    /\ deck_colors = <<>>
    /\ land_categories = NoLands
    /\ total_land_count = 0
    /\ land_distribution = <<>>
    /\ NoPlan /\ NoPool /\ NoCache /\ NoDeck
    /\ NoCurve /\ NoCalls
    /\ NoCard /\ NoMatches /\ NoOptimizer

\* _calculate_total_land_count(spell_count, format_name, mana_requirements)
CalculateTotalLandCount ==
    /\ pc = "count"
    /\ IF CountRaises(mana_requirements)
       THEN /\ pc' = "raised"
            /\ error' = "ZeroDivisionError"
            /\ total_land_count' = total_land_count
       ELSE /\ pc' = "counted"
            /\ error' = error
            /\ total_land_count' =
                 _calculate_total_land_count(format_name, mana_requirements)
    /\ UNCHANGED <<format_name, primary_strategy, secondary_strategy,
                   mechanics, deck_colors, specific_cards, card_pool,
                   synergy_scores, synergy_cache, composition, existing_deck,
                   deck, mana_requirements, land_categories, land_distribution>>
    /\ UNCHANGED <<mana_curve, calls>>
    /\ UNCHANGED <<classified_card, primary_type, matches, analysis, weak_cards,
                   suggestions, replacement_scores>>

NextCount == CalculateTotalLandCount

SpecCount == InitCount /\ [][NextCount]_vars

---------------------------------------------------------------------------
(* Specification of one SynergyDetector serving a sequence of calls *)

CacheNames == {"Bolt", "Relic"}

CachePools == SeqsUpTo(CacheNames, MaxCachePool)

CacheStrategies == {"aggro", "control"}

MechLists == {<<>>, <<"flying", "haste">>, <<"haste", "flying">>}

InitCache ==
    /\ pc = "detector"
    /\ error = ""
    /\ format_name = "standard"
    /\ synergy_cache = EmptyCache
    /\ mechanics = <<>>
    /\ NoPlan /\ NoPool /\ NoDeck /\ NoManaBase
    /\ NoCurve /\ NoCalls
    /\ NoCard /\ NoMatches /\ NoOptimizer

CalculateSynergies ==
    /\ pc \in {"detector", "scored"}
    /\ \E pool \in CachePools, strategy \in CacheStrategies, mechs \in MechLists :
         /\ card_pool' = pool
         /\ primary_strategy' = strategy
         /\ mechanics' = mechs
         /\ synergy_scores' = SynergiesResult(synergy_cache, pool, strategy, mechs)
         /\ synergy_cache' = SynergiesCache(synergy_cache, pool, strategy, mechs)
    /\ pc' = "scored"
    /\ UNCHANGED <<error, format_name, secondary_strategy, deck_colors,
                   specific_cards, composition, existing_deck, deck,
                   mana_requirements, land_categories, total_land_count,
                   land_distribution>>
    /\ UNCHANGED <<mana_curve, calls>>
    /\ UNCHANGED <<classified_card, primary_type, matches, analysis, weak_cards,
                   suggestions, replacement_scores>>

NextCache == CalculateSynergies

SpecCache == InitCache /\ [][NextCache]_vars

---------------------------------------------------------------------------
(* Specification of construct_deck serving one request *)

RequestPools == SeqsUpTo(PoolNames, MaxRequestPool)

RequestColors == {<<>>, <<"R">>, <<"W", "U">>}

RequestStrategies == {"aggro", "control", ""}

Init ==
    /\ pc = "request"
    /\ error = ""
    /\ format_name \in SelectFormats
    /\ primary_strategy \in RequestStrategies
    /\ secondary_strategy = ""
    /\ mechanics \in {<<>>, <<"haste", "flying">>}
    /\ deck_colors \in RequestColors
    /\ specific_cards \in PinnedLists
    /\ card_pool \in RequestPools
    /\ synergy_scores = NoScores
    /\ synergy_cache = EmptyCache
    /\ composition = NoComposition
    /\ NoDeck
    /\ mana_requirements = <<>>
    /\ land_categories = NoLands
    /\ total_land_count = 0
    /\ land_distribution = <<>>
    /\ NoCurve /\ NoCalls
    /\ NoCard /\ NoMatches /\ NoOptimizer

\* lines 36-43, up to the await of line 46
ConstructDeckSeed ==
    /\ pc = "request"
    /\ deck' = SeedDeck(<<>>, specific_cards, format_name)
    /\ pc' = "await_synergies"
    /\ UNCHANGED <<error, format_name, primary_strategy, secondary_strategy,
                   mechanics, deck_colors, specific_cards, card_pool,
                   synergy_scores, synergy_cache, composition, existing_deck,
                   mana_requirements, land_categories, total_land_count,
                   land_distribution>>
    /\ UNCHANGED <<mana_curve, calls>>
    /\ UNCHANGED <<classified_card, primary_type, matches, analysis, weak_cards,
                   suggestions, replacement_scores>>

\* the awaited calculate_synergies of lines 46-50 returns
ConstructDeckSynergies ==
    /\ pc = "await_synergies"
    /\ synergy_scores' =
         SynergiesResult(synergy_cache, card_pool, primary_strategy, mechanics)
    /\ synergy_cache' =
         SynergiesCache(synergy_cache, card_pool, primary_strategy, mechanics)
    /\ pc' = "scored"
    /\ UNCHANGED <<error, format_name, primary_strategy, secondary_strategy,
                   mechanics, deck_colors, specific_cards, card_pool,
                   composition, existing_deck, deck, mana_requirements,
                   land_categories, total_land_count, land_distribution>>
    /\ UNCHANGED <<mana_curve, calls>>
    /\ UNCHANGED <<classified_card, primary_type, matches, analysis, weak_cards,
                   suggestions, replacement_scores>>

\* lines 52-87: group, plan and select; the call of line 72 then hands
\* three arguments to calculate_mana_base, which has four parameters
\* (mana_base_calculator.py, line 5), and raises TypeError, so that the
\* merge, _adjust_quantities and _validate_deck are never reached
ConstructDeckBuild ==
    /\ pc = "scored"
    /\ composition' = _determine_deck_composition(primary_strategy,
                                                   secondary_strategy, format_name)
    /\ existing_deck' = deck
    /\ IF SelectRaises(deck, card_pool)
       THEN /\ error' = "KeyError"
            /\ deck' = deck
       ELSE /\ error' = "TypeError"
            /\ deck' = _select_cards(deck, card_pool, synergy_scores,
                                     composition', format_name)
    /\ pc' = "raised"
    /\ UNCHANGED <<format_name, primary_strategy, secondary_strategy,
                   mechanics, deck_colors, specific_cards, card_pool,
                   synergy_scores, synergy_cache, mana_requirements,
                   land_categories, total_land_count, land_distribution>>
    /\ UNCHANGED <<mana_curve, calls>>
    /\ UNCHANGED <<classified_card, primary_type, matches, analysis, weak_cards,
                   suggestions, replacement_scores>>

Next == ConstructDeckSeed \/ ConstructDeckSynergies \/ ConstructDeckBuild

Spec == Init /\ [][Next]_vars

---------------------------------------------------------------------------
(* Specification of one DeckConstructorService serving successive requests *)

RunPools == SeqsUpTo(CacheNames, MaxRunPool)

RunPinned == {<<>>, <<"Relic">>}

InitRuns ==
    /\ pc = "request"
    /\ error = ""
    /\ format_name = "standard"
    /\ primary_strategy \in CacheStrategies
    /\ secondary_strategy = ""
    /\ mechanics = <<>>
    /\ deck_colors = <<"R">>
    /\ specific_cards \in RunPinned
    /\ card_pool \in RunPools
    /\ synergy_scores = NoScores
    /\ synergy_cache = EmptyCache
    /\ composition = NoComposition
    /\ NoDeck
    /\ mana_requirements = <<>>
    /\ land_categories = NoLands
    /\ total_land_count = 0
    /\ land_distribution = <<>>
    /\ NoCurve /\ NoCalls
    /\ NoCard /\ NoMatches /\ NoOptimizer

\* construct_deck is called again on the same service: the SynergyDetector
\* built in __init__ keeps its cache, everything else starts anew
NewRequest ==
    /\ pc = "raised"
    /\ pc' = "request"
    /\ error' = ""
    /\ primary_strategy' \in CacheStrategies
    /\ specific_cards' \in RunPinned
    /\ card_pool' \in RunPools
    /\ synergy_scores' = NoScores
    /\ composition' = NoComposition
    /\ existing_deck' = <<>>
    /\ deck' = <<>>
    /\ UNCHANGED <<format_name, secondary_strategy, mechanics, deck_colors,
                   synergy_cache, mana_requirements, land_categories,
                   total_land_count, land_distribution, mana_curve, calls>>
    /\ UNCHANGED <<classified_card, primary_type, matches, analysis, weak_cards,
                   suggestions, replacement_scores>>

NextRuns ==
    \/ ConstructDeckSeed
    \/ ConstructDeckSynergies
    \/ ConstructDeckBuild
    \/ NewRequest

SpecRuns == InitRuns /\ [][NextRuns]_vars

---------------------------------------------------------------------------
(* Specification of DeckConstructor.construct_deck (rag/deck_constructor.py) *)
(* The class calls four helpers it does not define; they are modelled from  *)
(* the description of the Composition Planner, the Mana Base Builder and    *)
(* the Card Selector.  Its deck is a list of cards, modelled as a sequence  *)
(* of names.                                                                *)

\* self._categorize_cards(card_pool): the lands and the other cards of the pool
_categorize_cards(pool) ==
    [lands    |-> SelectSeq(pool, LAMBDA n : KnownCard(n) /\ IsLandCard(n)),
     nonlands |-> SelectSeq(pool, LAMBDA n : ~(KnownCard(n) /\ IsLandCard(n)))]

\* self._determine_land_count(format_name, strategy)
_determine_land_count(fmt, strategy) == IF Lower(fmt) = "commander" THEN 38 ELSE 24

\* the basic land of a color
BasicOfColor(c) ==
    CASE c = "W" -> "Plains" [] c = "U" -> "Island" [] c = "B" -> "Swamp"
      [] c = "R" -> "Mountain" [] c = "G" -> "Forest"

\* self._build_mana_base(lands, colors, land_count): land_count basic lands
\* spread evenly over the colors, or the fallback basic without colors
_build_mana_base(lands, colors, land_count) ==
    [i \in 1..land_count |->
        IF colors = <<>> THEN "Wastes"
        ELSE BasicOfColor(colors[((i - 1) % Len(colors)) + 1])]

\* self._select_nonland_cards(..., count): the first count non-land cards
_select_nonland_cards(categorized, count) ==
    IF count <= 0 THEN <<>> ELSE Take(categorized.nonlands, count)

InitRag ==
    /\ pc = "rag"
    /\ error = ""
    /\ format_name \in SelectFormats
    /\ primary_strategy \in SelectStrategies
    /\ secondary_strategy = ""
    /\ mechanics = <<>>
    /\ deck_colors \in RequestColors
    /\ specific_cards \in PinnedLists
    /\ card_pool \in RequestPools
    /\ synergy_scores = NoScores
    /\ synergy_cache = EmptyCache
    /\ composition = NoComposition
    /\ NoDeck
    /\ mana_requirements = <<>>
    /\ land_categories = NoLands
    /\ total_land_count = 0
    /\ land_distribution = <<>>
    /\ NoCurve /\ NoCalls
    /\ NoCard /\ NoMatches /\ NoOptimizer

\* lines 5-35: `deck = specific_cards` (line 12) binds deck to the caller's
\* list whenever that list is not empty, so that both deck.extend calls
\* (lines 23, 33) grow the caller's list
RagConstructDeck ==
    /\ pc = "rag"
    /\ LET categorized_cards == _categorize_cards(card_pool)
           aliased    == specific_cards # <<>>
           deck0      == IF aliased THEN specific_cards ELSE <<>>
           land_count == _determine_land_count(format_name, primary_strategy)
           mana_base  == _build_mana_base(categorized_cards.lands, deck_colors,
                                          land_count)
           deck1      == deck0 \o mana_base
           remaining_cards ==
               _select_nonland_cards(categorized_cards, 60 - Len(deck1))
           deck2      == deck1 \o remaining_cards
       IN  /\ deck' = deck2
           /\ specific_cards' = IF aliased THEN deck2 ELSE specific_cards
    /\ pc' = "rag_done"
    /\ UNCHANGED <<error, format_name, primary_strategy, secondary_strategy,
                   mechanics, deck_colors, card_pool, synergy_scores,
                   synergy_cache, composition, existing_deck,
                   mana_requirements, land_categories, total_land_count,
                   land_distribution, mana_curve, calls>>
    /\ UNCHANGED <<classified_card, primary_type, matches, analysis, weak_cards,
                   suggestions, replacement_scores>>

NextRag == RagConstructDeck

SpecRag == InitRag /\ [][NextRag]_vars

---------------------------------------------------------------------------
(* Specification of concurrent calculate_synergies calls on one detector,  *)
(* all with the same strategy and mechanics, interleaved at their awaits   *)

IdleCall == [pc |-> "idle", pool |-> <<>>, computed |-> FALSE, result |-> NoScores]

InitCalls ==
    /\ pc = "calls"
    /\ error = ""
    /\ format_name = "standard"
    /\ primary_strategy = "aggro"
    /\ secondary_strategy = ""
    /\ mechanics = <<>>
    /\ synergy_cache = EmptyCache
    /\ synergy_scores = NoScores
    /\ card_pool = <<>>
    /\ specific_cards = <<>>
    /\ composition = NoComposition
    /\ calls = [c \in 1..MaxCalls |-> IdleCall]
    /\ NoDeck /\ NoManaBase /\ NoCurve
    /\ NoCard /\ NoMatches /\ NoOptimizer

\* lines 33-51: the call builds its key and looks it up; on a hit it returns
\* the filtered entry (line 37), on a miss it runs up to its first await
CallStart(c) ==
    /\ calls[c].pc = "idle"
    /\ \E pool \in CachePools :
         LET key == CacheKey(primary_strategy, mechanics)
         IN  IF key \in DOMAIN synergy_cache
             THEN calls' = [calls EXCEPT ![c] =
                              [pc |-> "returned", pool |-> pool, computed |-> FALSE,
                               result |-> _filter_synergies_for_pool(synergy_cache[key],
                                                                     pool)]]
             ELSE calls' = [calls EXCEPT ![c] =
                              [pc |-> "awaiting", pool |-> pool, computed |-> FALSE,
                               result |-> NoScores]]
    /\ UNCHANGED <<pc, error, format_name, primary_strategy, secondary_strategy,
                   mechanics, deck_colors, specific_cards, card_pool,
                   synergy_scores, synergy_cache, composition, existing_deck,
                   deck, mana_requirements, land_categories, total_land_count,
                   land_distribution, mana_curve>>
    /\ UNCHANGED <<classified_card, primary_type, matches, analysis, weak_cards,
                   suggestions, replacement_scores>>

\* lines 51-68: the awaited embedding and scores arrive (the awaits of lines
\* 51, 54 and 57 touch no shared state), the call combines them, overwrites
\* the entry of its key (line 66) and returns
CallResume(c) ==
    /\ calls[c].pc = "awaiting"
    /\ LET key == CacheKey(primary_strategy, mechanics)
           combined_scores == CombinedScores(calls[c].pool, primary_strategy,
                                             mechanics)
       IN  /\ synergy_cache' =
                [k \in DOMAIN synergy_cache \cup {key} |->
                    IF k = key THEN combined_scores ELSE synergy_cache[k]]
           /\ calls' = [calls EXCEPT ![c] =
                          [pc |-> "returned", pool |-> calls[c].pool,
                           computed |-> TRUE, result |-> combined_scores]]
    /\ UNCHANGED <<pc, error, format_name, primary_strategy, secondary_strategy,
                   mechanics, deck_colors, specific_cards, card_pool,
                   synergy_scores, composition, existing_deck, deck,
                   mana_requirements, land_categories, total_land_count,
                   land_distribution, mana_curve>>
    /\ UNCHANGED <<classified_card, primary_type, matches, analysis, weak_cards,
                   suggestions, replacement_scores>>

NextCalls == \E c \in 1..MaxCalls : CallStart(c) \/ CallResume(c)

SpecCalls == InitCalls /\ [][NextCalls]_vars

---------------------------------------------------------------------------
(* Specification of calculate_mana_curve called on a decklist, twice *)

\* entries of the decklists handed to calculate_mana_curve: spells of mana
\* value 0, 1, 2, 6, 7 and 8, a card without a recorded mana value, lands,
\* and a name the catalog does not know
CurveEntries ==
    {Entry("Bolt", 4), Entry("Opt01", 2), Entry("Bear", 3), Entry("Relic", 1),
     Entry("Golem", 2), Entry("Ingot", 1), Entry("Lotus", 1), Entry("Scheme", 2),
     Entry("Tower", 4), Entry("Island", 10), Entry("Swamp", 5), Entry("Ghost", 3)}

RECURSIVE CurveDictsUpTo(_)
CurveDictsUpTo(n) ==
    IF n = 0 THEN {<<>>}
    ELSE CurveDictsUpTo(n - 1) \cup
         {Append(d, e) : d \in {x \in CurveDictsUpTo(n - 1) : Len(x) = n - 1},
                         e \in CurveEntries}

CurveDecks == {d \in CurveDictsUpTo(MaxCurveLen) : IsDict(d)}

InitCurve ==
    /\ pc = "curve"
    /\ error = ""
    /\ format_name = "standard"
    /\ deck \in CurveDecks
    /\ existing_deck = deck
    /\ NoPlan /\ NoPool /\ NoCache /\ NoManaBase /\ NoCurve /\ NoCalls
    /\ NoCard /\ NoMatches /\ NoOptimizer

CalculateManaCurve ==
    /\ pc \in {"curve", "curved"}
    /\ mana_curve' = calculate_mana_curve(deck)
    /\ pc' = IF pc = "curve" THEN "curved" ELSE "curved_again"
    /\ UNCHANGED <<error, format_name, primary_strategy, secondary_strategy,
                   mechanics, deck_colors, specific_cards, card_pool,
                   synergy_scores, synergy_cache, composition, existing_deck,
                   deck, mana_requirements, land_categories, total_land_count,
                   land_distribution, calls>>
    /\ UNCHANGED <<classified_card, primary_type, matches, analysis, weak_cards,
                   suggestions, replacement_scores>>

NextCurve == CalculateManaCurve

SpecCurve == InitCurve /\ [][NextCurve]_vars

---------------------------------------------------------------------------
(* Specification of the Card Selector on decks whose pinned cards fill or   *)
(* overfill a category                                                      *)

\* three Artifacts, so that two can be pinned and a third be a candidate,
\* with an Instant and a Land
SeededPoolNames == {"Lotus", "Relic", "Bolt", "Tower"}

SeededPools == SeqsUpTo(SeededPoolNames, MaxSeededPool)

SeededPinned == SeqsUpTo({"Relic", "Ingot", "Island"}, MaxPinned)

SeededScores == {NoScores, [n \in SeededPoolNames |-> 90]}

InitSeeded ==
    /\ pc = "select"
    /\ error = ""
    /\ format_name \in SelectFormats
    /\ primary_strategy \in SelectStrategies
    /\ secondary_strategy = ""
    /\ composition = _determine_deck_composition(primary_strategy, "", format_name)
    /\ specific_cards \in SeededPinned
    /\ card_pool \in SeededPools
    /\ synergy_scores \in SeededScores
    /\ existing_deck = SeedDeck(<<>>, specific_cards, format_name)
    /\ deck = existing_deck
    /\ NoCache /\ NoManaBase
    /\ NoCurve /\ NoCalls
    /\ NoCard /\ NoMatches /\ NoOptimizer

NextSeeded == SelectCards

SpecSeeded == InitSeeded /\ [][NextSeeded]_vars

---------------------------------------------------------------------------
(* Specification of _get_primary_type called on one card *)

\* the seven listed types and two types outside the list
TypeNames ==
    {"Creature", "Planeswalker", "Instant", "Sorcery", "Artifact", "Enchantment",
     "Land", "Kindred", "Conspiracy"}

\* card.get("types", []): a card without the key has the empty list
TypeLists == SeqsUpTo(TypeNames, MaxTypes)

InitType ==
    /\ pc = "type"
    /\ error = ""
    /\ format_name = "standard"
    /\ classified_card \in {[types |-> ts] : ts \in TypeLists}
    /\ primary_type = ""
    /\ NoPlan /\ NoPool /\ NoCache /\ NoDeck /\ NoManaBase /\ NoCurve /\ NoCalls
    /\ NoMatches /\ NoOptimizer

GetPrimaryType ==
    /\ pc = "type"
    /\ primary_type' = _get_primary_type(classified_card)
    /\ pc' = "typed"
    /\ UNCHANGED <<error, format_name, primary_strategy, secondary_strategy,
                   mechanics, deck_colors, specific_cards, card_pool,
                   synergy_scores, synergy_cache, composition, existing_deck,
                   deck, mana_requirements, land_categories, total_land_count,
                   land_distribution, mana_curve, calls, classified_card,
                   matches, analysis, weak_cards, suggestions, replacement_scores>>

NextType == GetPrimaryType

SpecType == InitType /\ [][NextType]_vars

---------------------------------------------------------------------------
(* Specification of the Quantity Normalizer called on decks a few cards
   short of the minimum *)

ShortEntries ==
    {Entry("Bolt", 1), Entry("Ghost", 1), Entry("Relic", 4), Entry("Island", 1),
     Entry("Island", 54), Entry("Wastes", 3), Entry("Basic R", 55)}

RECURSIVE EntryDictsUpTo(_, _)
\* the dicts of at most n entries drawn from the set E
EntryDictsUpTo(E, n) ==
    IF n = 0 THEN {<<>>}
    ELSE EntryDictsUpTo(E, n - 1) \cup
         {Append(d, e) : d \in {x \in EntryDictsUpTo(E, n - 1) : Len(x) = n - 1},
                         e \in E}

ShortDecks == {d \in EntryDictsUpTo(ShortEntries, MaxShortDeckLen) : IsDict(d)}

InitShort ==
    /\ pc = "adjust"
    /\ error = ""
    /\ format_name \in Formats
    /\ deck \in ShortDecks
    /\ existing_deck = deck
    /\ NoPlan /\ NoPool /\ NoCache /\ NoManaBase
    /\ NoCurve /\ NoCalls
    /\ NoCard /\ NoMatches /\ NoOptimizer

NextShort == AdjustQuantities

SpecShort == InitShort /\ [][NextShort]_vars

---------------------------------------------------------------------------
(* Card pool retrieval (DeckbuilderRAGQueryEngine.retrieve_card_pool) *)

RECURSIVE DedupLoop(_, _, _)
\* for card in all_cards: if card["name"] not in seen_names: ... (lines 63-66)
DedupLoop(all_cards, seen_names, unique_cards) ==
    IF all_cards = <<>> THEN unique_cards
    ELSE IF Head(all_cards) \in seen_names
         THEN DedupLoop(Tail(all_cards), seen_names, unique_cards)
         ELSE DedupLoop(Tail(all_cards), seen_names \cup {Head(all_cards)},
                        Append(unique_cards, Head(all_cards)))

\* a retrieval that returns the combined matches as they are
UniqueCardsKeepingAll(all_cards) == all_cards

\* unique_cards of lines 61-68
UniqueCards(all_cards) == DedupLoop(all_cards, {}, <<>>)

\* all_cards of lines 57-58: the strategy matches, extended by the
\* win-condition matches (none when no win condition is given)
AllCards(m) == m.strategy \o m.win_condition

---------------------------------------------------------------------------
(* Specification of retrieve_card_pool followed by the Card Selector, and of
   the Card Selector handed a pool with repeated names *)

RetrievedNames == {"Bolt", "Relic", "Ingot", "Golem"}

MatchLists == SeqsUpTo(RetrievedNames, MaxMatches)

HandedPools == SeqsUpTo(RetrievedNames, MaxHandedPool)

InitRetrieve ==
    /\ pc \in {"retrieve", "select"}
    /\ error = ""
    /\ format_name \in SelectFormats
    /\ primary_strategy = "aggro"
    /\ secondary_strategy = ""
    /\ composition = _determine_deck_composition(primary_strategy, "", format_name)
    /\ specific_cards \in {<<>>, <<"Relic">>}
    /\ IF pc = "retrieve"
       THEN /\ matches \in [strategy : MatchLists, win_condition : MatchLists]
            /\ card_pool = <<>>
       ELSE /\ NoMatches
            /\ card_pool \in HandedPools
    /\ synergy_scores \in {NoScores, [n \in RetrievedNames |-> 90]}
    /\ existing_deck = SeedDeck(<<>>, specific_cards, format_name)
    /\ deck = existing_deck
    /\ NoCache /\ NoManaBase
    /\ NoCurve /\ NoCalls
    /\ NoCard /\ NoOptimizer

RetrieveCardPool ==
    /\ pc = "retrieve"
    /\ card_pool' = UniqueCards(AllCards(matches))
    /\ pc' = "select"
    /\ UNCHANGED <<error, format_name, primary_strategy, secondary_strategy,
                   mechanics, deck_colors, specific_cards, synergy_scores,
                   synergy_cache, composition, existing_deck, deck,
                   mana_requirements, land_categories, total_land_count,
                   land_distribution, mana_curve, calls, classified_card,
                   primary_type, matches, analysis, weak_cards, suggestions, replacement_scores>>

NextRetrieve == RetrieveCardPool \/ SelectCards

SpecRetrieve == InitRetrieve /\ [][NextRetrieve]_vars

---------------------------------------------------------------------------
(* Specification of _identify_weak_cards_heuristic called on its own *)

WeakEntries ==
    {Entry("Bolt", 4), Entry("Giant", 1), Entry("Titan", 2), Entry("Wall", 1),
     Entry("Spirit", 1), Entry("Golem", 1), Entry("Bear", 3), Entry("Tower", 2),
     Entry("Ghost", 1), Entry("Relic", 1)}

WeakDecks == {d \in EntryDictsUpTo(WeakEntries, MaxWeakDeckLen) : IsDict(d)}

InitWeak ==
    /\ pc = "weak"
    /\ error = ""
    /\ format_name = "standard"
    /\ deck \in WeakDecks
    /\ existing_deck = <<>>
    /\ analysis \in [overall_strategy_identification : {"Aggro", "control", ""},
                      mentioned : {{}}]
    /\ weak_cards = <<>>
    /\ suggestions = <<>>
    /\ replacement_scores = NoScores
    /\ NoPlan /\ NoPool /\ NoCache /\ NoManaBase /\ NoCurve /\ NoCalls
    /\ NoCard /\ NoMatches

IdentifyWeakCardsHeuristic ==
    /\ pc = "weak"
    /\ weak_cards' = _identify_weak_cards_heuristic(deck, analysis)
    /\ pc' = "weak_done"
    /\ UNCHANGED <<error, format_name, primary_strategy, secondary_strategy,
                   mechanics, deck_colors, specific_cards, card_pool,
                   synergy_scores, synergy_cache, composition, existing_deck,
                   deck, mana_requirements, land_categories, total_land_count,
                   land_distribution, mana_curve, calls, classified_card,
                   primary_type, matches, analysis, suggestions,
                   replacement_scores>>

NextWeak == IdentifyWeakCardsHeuristic

SpecWeak == InitWeak /\ [][NextWeak]_vars

---------------------------------------------------------------------------
(* Specification of _generate_replacement_suggestions *)

OptEntries ==
    {Entry("Bolt", 4), Entry("Giant", 1), Entry("Titan", 1), Entry("Spirit", 1),
     Entry("Tower", 2), Entry("Ghost", 1)}

OptDecks == {d \in EntryDictsUpTo(OptEntries, MaxOptDeckLen) : IsDict(d)}

OptPoolNames == {"Ogre", "Spirit", "Relic", "Giant"}

\* the pools retrieve_card_pool returns hold a name once
OptPools == {q \in SeqsUpTo(OptPoolNames, MaxOptPool) : IsInjective(q)}

\* scores between 0 and 10 returned by _score_replacement
OptScores ==
    {[n \in OptPoolNames |-> 5],
     [n \in OptPoolNames |->
        CASE n = "Ogre" -> 3 [] n = "Spirit" -> 9 [] n = "Relic" -> 9
          [] n = "Giant" -> 10]}

InitOptimize ==
    /\ pc = "optimize"
    /\ error = ""
    /\ format_name = "standard"
    /\ deck \in OptDecks
    /\ existing_deck = <<>>
    /\ analysis \in [overall_strategy_identification : {"Aggro", "control"},
                      mentioned : {{}, {"Bolt", "Ghost"}}]
    /\ card_pool \in OptPools
    /\ synergy_scores = NoScores
    /\ replacement_scores \in OptScores
    /\ weak_cards = <<>>
    /\ suggestions = <<>>
    /\ specific_cards = <<>>
    /\ NoPlan /\ NoCache /\ NoManaBase /\ NoCurve /\ NoCalls
    /\ NoCard /\ NoMatches

GenerateReplacementSuggestions ==
    /\ pc = "optimize"
    /\ weak_cards' = WeakCards(deck, analysis)
    /\ suggestions' = _generate_replacement_suggestions(deck, analysis, card_pool,
                                                        replacement_scores)
    /\ pc' = "optimized"
    /\ UNCHANGED <<error, format_name, primary_strategy, secondary_strategy,
                   mechanics, deck_colors, specific_cards, card_pool,
                   synergy_scores, synergy_cache, composition, existing_deck,
                   deck, mana_requirements, land_categories, total_land_count,
                   land_distribution, mana_curve, calls, classified_card,
                   primary_type, matches, analysis, replacement_scores>>

NextOptimize == GenerateReplacementSuggestions

SpecOptimize == InitOptimize /\ [][NextOptimize]_vars

---------------------------------------------------------------------------
(* Claims about the Composition Planner *)

\* the deck size of the format the claims speak of
DeckSize(fmt) == IF Lower(fmt) = "commander" THEN 100 ELSE 60

\* C1: for every strategy and format the composition has no negative value
\* and its values sum exactly to the format's deck size (60, or 100 for
\* commander).
C1_CompositionSumsToDeckSize ==
    pc = "planned" =>
        /\ \A t \in CompositionTypes : composition[t] >= 0
        /\ CompositionTotal(composition) = DeckSize(format_name)

\* C2: the planner takes 38 lands and a non-land budget of 62 for commander
\* (any letter case) and 24 lands and a budget of 36 for any other format.
C2_TotalsByFormat ==
    pc = "planned" =>
        IF Lower(format_name) = "commander"
        THEN composition["Land"] = 38 /\ NonLandCount(format_name) = 62
        ELSE composition["Land"] = 24 /\ NonLandCount(format_name) = 36

---------------------------------------------------------------------------
(* Claims about the Quantity Normalizer *)

\* C4: _adjust_quantities returns a deck of at least the format minimum,
\* of exactly the minimum when the input was below it, and in which every
\* entry of the input is still present with at least its quantity.
C4_MinimumSize ==
    pc = "adjusted" =>
        /\ DictTotal(deck) >= MinCards(format_name)
        /\ DictTotal(existing_deck) < MinCards(format_name)
              => DictTotal(deck) = MinCards(format_name)
        /\ \A i \in DOMAIN existing_deck :
              /\ DictHas(deck, existing_deck[i].name)
              /\ DictGet(deck, existing_deck[i].name) >= existing_deck[i].qty

\* a deck below the minimum was topped up and padded with basic lands
C4_Witness ==
    /\ pc = "adjusted"
    /\ DictTotal(existing_deck) < MinCards(format_name)
    /\ DictTotal(deck) = MinCards(format_name)
    /\ \E i \in DOMAIN existing_deck :
          /\ ~_is_basic_land(existing_deck[i].name)
          /\ DictGet(deck, existing_deck[i].name) > existing_deck[i].qty
    /\ \E n \in Range(BasicLandNames) : DictGet(deck, n) > DictGet(existing_deck, n)

\* C8: no entry of a decklist returned by _adjust_quantities has quantity 0.
C8_QuantitiesAtLeastOne ==
    pc = "adjusted" => \A i \in DOMAIN deck : deck[i].qty >= 1

\* C13: _adjust_quantities returns a deck whose total already meets the
\* format minimum unchanged, and a second call on its own output returns that
\* output unchanged.
C13_Idempotent ==
    [][pc' = "adjusted" =>
         /\ DictTotal(deck) >= MinCards(format_name) => deck' = deck
         /\ pc = "adjusted" => deck' = deck]_vars

\* a second call has returned a deck padded with the five basic lands as it
\* was
C13_Witness ==
    /\ pc = "adjusted"
    /\ existing_deck = deck
    /\ DictGet(deck, "Plains") > 0
    /\ DictTotal(deck) = MinCards(format_name)

---------------------------------------------------------------------------
(* Claims about the Card Selector *)

IsBasicLand(n) == _is_basic_land(n) \/ IsBasicByCatalog(n)

AllScore90 == \A n \in Range(TenInstants) : ScoreOf(synergy_scores, n) = 90

\* C3: in every decklist produced by _select_cards, and by
\* _adjust_quantities from it, every entry that is not a basic land has at
\* most max_copies(format) copies; in commander ten Instants scoring 0.9
\* get exactly 1 copy each.
C3_CopyLimit ==
    pc \in {"selected", "adjusted"} =>
        /\ \A i \in DOMAIN deck :
              ~IsBasicLand(deck[i].name) => deck[i].qty <= MaxCopies(format_name)
        /\ (Lower(format_name) = "commander" /\ card_pool = TenInstants /\ AllScore90)
              => \A n \in Range(TenInstants) :
                    /\ DictHas(deck, n) => DictGet(deck, n) = 1
                    /\ Lower(primary_strategy) = "control" => DictHas(deck, n)

\* a card scored above 0.8 got its bonus copies, and the normalizer then
\* padded the deck with more basic lands than the copy limit
C3_Witness ==
    /\ pc = "adjusted"
    /\ \E i \in DOMAIN deck :
          /\ ~IsBasicLand(deck[i].name)
          /\ ScoreOf(synergy_scores, deck[i].name) > HighSynergy
          /\ deck[i].qty = MaxCopies(format_name)
          /\ deck[i].qty > 1
          /\ deck[i].name \notin Range(specific_cards)
          /\ deck[i].name \in Range(card_pool)
    /\ \E i \in DOMAIN deck :
          IsBasicLand(deck[i].name) /\ deck[i].qty > MaxCopies(format_name)

---------------------------------------------------------------------------
(* Claims about the Mana Base Builder *)

\* a non-empty color set or a non-zero pip count
NonDegenerate == deck_colors # <<>> \/ TotalPips(mana_requirements) > 0

\* C5: for every non-degenerate input the quantities of the returned land
\* distribution sum exactly to the total land count.
C5_ManaBaseExact ==
    (pc = "mana_done" /\ NonDegenerate)
        => DictTotal(land_distribution) = total_land_count

\* C10: when the colored pips sum to zero (or the requirements are empty)
\* the builder does not fail: it returns a land distribution, in which each
\* of the N declared colors has a 1/N share of the basic lands.
C10_NoDivisionByZero ==
    (pc \in {"mana_done", "raised"} /\ TotalPips(mana_requirements) = 0)
        => /\ pc = "mana_done"
           /\ \A i \in DOMAIN deck_colors :
                 LET n == DictGet(land_distribution, BasicName(deck_colors[i]))
                     basics == total_land_count
                                 - DictGet(land_distribution, "Guildgate")
                                 - DictGet(land_distribution, "Strand")
                                 - DictGet(land_distribution, "Tower")
                 IN  /\ n * Len(deck_colors) > basics - Len(deck_colors)
                     /\ n * Len(deck_colors) < basics + Len(deck_colors)

---------------------------------------------------------------------------
(* Claims about the SynergyDetector and construct_deck *)

\* C7: every calculate_synergies call returns the mapping it would compute
\* with an empty cache, whatever the cache holds.
C7_CacheAdvisory ==
    pc = "scored" =>
        synergy_scores = SynergiesResult(EmptyCache, card_pool, primary_strategy,
                                         mechanics)

\* C6: construct_deck runs all its stages and returns a decklist; it never
\* ends in an error.
C6_ConstructDeckReturns == pc # "raised" /\ error = ""

---------------------------------------------------------------------------
(* Claims about the mana curve *)

\* sum of the quantities of the catalog-known non-land entries of d whose
\* mana value lies in S
CurveCount(d, S) ==
    SumSeq([i \in DOMAIN d |->
              IF /\ KnownCard(d[i].name)
                 /\ "Land" \notin Range(Catalog[d[i].name].types)
                 /\ ManaValue(d[i].name) \in S
              THEN d[i].qty ELSE 0])

CurveKeys == {"0", "1", "2", "3", "4", "5", "6", "7+"}

CurveValues(k) ==
    CASE k = "7+" -> 7..9
      [] k = "0"  -> {0}
      [] k = "1"  -> {1}
      [] k = "2"  -> {2}
      [] k = "3"  -> {3}
      [] k = "4"  -> {4}
      [] k = "5"  -> {5}
      [] k = "6"  -> {6}

C11_CurveOfDeck ==
    pc \in {"curved", "curved_again"} =>
        /\ IsDict(mana_curve)
        /\ \A i \in DOMAIN mana_curve :
              mana_curve[i].name \in CurveKeys /\ mana_curve[i].qty > 0
        /\ \A k \in CurveKeys :
              DictGet(mana_curve, k) = CurveCount(deck, CurveValues(k))
        /\ deck = existing_deck
        /\ (deck = <<Entry("Island", 10), Entry("Swamp", 5)>> => mana_curve = <<>>)
        /\ _calculate_mana_curve(CardList(deck)) = mana_curve

\* C11: calculate_mana_curve returns, per bucket, the summed quantities of the
\* catalog-known non-land cards whose mana value falls in it: values of 7 and
\* more share "7+", a card without a recorded mana value counts as 0, unknown
\* cards and lands contribute nothing, empty buckets are absent, {Island: 10,
\* Swamp: 5} yields {}; a second run returns the same curve and the decklist
\* is left as it was.
C11_ManaCurve ==
    /\ []C11_CurveOfDeck
    /\ [][pc = "curved" => (mana_curve' = mana_curve /\ deck' = deck)]_vars

\* a curve computed twice where two cards share "7+" and a land of the deck
\* is left out
C11_Witness ==
    /\ pc = "curved_again"
    /\ mana_curve = <<Entry("7+", 3)>>
    /\ DictHas(deck, "Tower")

---------------------------------------------------------------------------
(* Claims about construct_deck *)

\* the deck a run on the same inputs builds when it starts with an empty
\* synergy cache
EmptyCacheDeck ==
    LET seeded == SeedDeck(<<>>, specific_cards, format_name)
        scores == SynergiesResult(EmptyCache, card_pool, primary_strategy,
                                  mechanics)
        comp   == _determine_deck_composition(primary_strategy,
                                              secondary_strategy, format_name)
    IN  IF SelectRaises(seeded, card_pool) THEN seeded
        ELSE _select_cards(seeded, card_pool, scores, comp, format_name)

\* C12: a run of construct_deck ends with the same names, quantities and key
\* order as a run on the same inputs that started with an empty synergy
\* cache.
C12_Deterministic == pc = "raised" => deck = EmptyCacheDeck


\* C14: with an empty card pool, strategy 'aggro', format 'standard', colors
\* ['R'] and no pinned card, construct_deck plans 21 creatures, selects
\* nothing, and returns the decklist {Mountain: 60}.
C14_EmptyPoolDeck ==
    (/\ pc \notin {"request", "await_synergies", "scored"}
     /\ card_pool = <<>>
     /\ specific_cards = <<>>
     /\ primary_strategy = "aggro"
     /\ format_name = "standard"
     /\ deck_colors = <<"R">>)
    => /\ composition["Creature"] = 21
       /\ error = ""
       /\ deck = <<Entry("Mountain", 60)>>


\* the catalog knows n and does not record it as 'not_legal' in the format
LegalIn(n, fmt) ==
    /\ KnownCard(n)
    /\ Catalog[n].has_legality =>
         /\ Lower(fmt) \in DOMAIN Catalog[n].legality
         /\ Catalog[n].legality[Lower(fmt)] # "not_legal"

\* after the seeding: every legal pinned card has quantity 1, however often
\* it is listed, and no other pinned card is in the deck
C15_Seeded ==
    pc = "await_synergies" =>
        /\ IsDict(deck)
        /\ \A i \in DOMAIN specific_cards :
              IF LegalIn(specific_cards[i], format_name)
              THEN DictHas(deck, specific_cards[i]) /\ DictGet(deck, specific_cards[i]) = 1
              ELSE ~DictHas(deck, specific_cards[i])
        /\ \A i \in DOMAIN deck : deck[i].name \in Range(specific_cards)

\* C15: construct_deck returns a decklist whose every entry is legal in the
\* requested format or a basic land; an unknown or 'not_legal' pinned card is
\* never seeded and a legal pinned card is seeded with quantity 1.
C15_LegalDeck ==
    /\ C15_Seeded
    /\ pc \notin {"request", "await_synergies", "scored"} =>
         /\ error = ""
         /\ \A i \in DOMAIN deck :
               _is_basic_land(deck[i].name) \/ LegalIn(deck[i].name, format_name)


\* the selector returns every entry handed to it with the quantity it had
C16_SeededKept ==
    pc = "selected" =>
        \A i \in DOMAIN existing_deck :
            DictGet(deck, existing_deck[i].name) = existing_deck[i].qty

\* C16: no step of construct_deck or _select_cards modifies the card pool,
\* the deck parameters, the caller's list of pinned cards or the existing
\* deck handed in.
C16_InputsUnmodified ==
    [][/\ card_pool' = card_pool
       /\ specific_cards' = specific_cards
       /\ existing_deck' = existing_deck
       /\ <<primary_strategy, secondary_strategy, mechanics, deck_colors,
            format_name>>' =
          <<primary_strategy, secondary_strategy, mechanics, deck_colors,
            format_name>>]_vars

---------------------------------------------------------------------------
(* Claims about concurrent calls of the SynergyDetector *)

\* C17: of the calculate_synergies calls made with one key, those that compute
\* scores compute the same value, so the entry of the key is the value each
\* of them computed, and every call that has returned holds the scores it
\* would have computed itself with an empty cache.
C17_SameValueForKey ==
    pc = "calls" =>
        /\ \A c1, c2 \in DOMAIN calls :
              calls[c1].computed /\ calls[c2].computed
                  => calls[c1].result = calls[c2].result
        /\ \A c \in DOMAIN calls :
              calls[c].computed
                  => synergy_cache[CacheKey(primary_strategy, mechanics)] = calls[c].result
        /\ \A c \in DOMAIN calls :
              calls[c].pc = "returned"
                  => calls[c].result = CombinedScores(calls[c].pool, primary_strategy,
                                                      mechanics)

---------------------------------------------------------------------------
(* Claims about the order and the counts of the Card Selector *)

\* primary type of the card named n, "" for a name the catalog does not know
TypeOfName(n) == IF KnownCard(n) THEN _get_primary_type(Catalog[n]) ELSE ""

\* copies of cards of type t among the first k entries of d
CategoryCount(d, t, k) ==
    SumSeq([i \in 1..k |-> IF TypeOfName(d[i].name) = t THEN d[i].qty ELSE 0])

\* the entry i of the deck was added by the selector
AddedEntry(i) == ~DictHas(existing_deck, deck[i].name)

\* C18: a card the selector adds gets 1 copy, and when its score is strictly
\* above 0.8, min(max_copies - 1, target - added_count) further copies, where
\* added_count is the category's count once the first copy is in; the number
\* of further copies is never negative.
C18_BonusCopies ==
    pc = "selected" =>
        \A i \in DOMAIN deck :
            AddedEntry(i) =>
                LET t        == TypeOfName(deck[i].name)
                    added    == CategoryCount(deck, t, i - 1) + 1
                    headroom == composition[t] - added
                    further  == IF MaxCopies(format_name) - 1 < headroom
                                THEN MaxCopies(format_name) - 1 ELSE headroom
                IN  /\ further >= 0
                    /\ deck[i].qty =
                         IF ScoreOf(synergy_scores, deck[i].name) > 80
                         THEN 1 + further ELSE 1

\* a card scored above 0.8 got one further copy, all the room its category
\* had left, where the copy limit would have allowed three
C18_Witness ==
    /\ pc = "selected"
    /\ MaxCopies(format_name) = 4
    /\ \E i \in DOMAIN deck :
          /\ AddedEntry(i)
          /\ ScoreOf(synergy_scores, deck[i].name) > 80
          /\ deck[i].qty = 2


\* first position of the name n in the card pool
PoolPosition(n) == CHOOSE i \in DOMAIN card_pool :
                      card_pool[i] = n /\ \A j \in 1..(i - 1) : card_pool[j] # n

\* the pool card m is considered before the pool card n of its category
ConsideredBefore(m, n) ==
    /\ TypeOfName(m) = TypeOfName(n)
    /\ \/ ScoreOf(synergy_scores, m) > ScoreOf(synergy_scores, n)
       \/ /\ ScoreOf(synergy_scores, m) = ScoreOf(synergy_scores, n)
          /\ PoolPosition(m) < PoolPosition(n)

\* C19: within a non-land category the candidates are taken in descending
\* order of score, a missing score counting as 0 and equal scores keeping the
\* order of the pool: when the selector has added a card, every card of the
\* pool of the same category that comes before it in that order is in the
\* deck too.
C19_ScoreOrder ==
    pc = "selected" =>
        \A i \in DOMAIN deck :
            (AddedEntry(i) /\ deck[i].name \in Range(card_pool)) =>
                \A j \in DOMAIN card_pool :
                    ConsideredBefore(card_pool[j], deck[i].name)
                        => DictHas(deck, card_pool[j])

\* the target of a category was met before the pool's first card of that
\* category, which scores lower than a later one, could be taken
C19_Witness ==
    /\ pc = "selected"
    /\ \E i \in DOMAIN deck, j \in DOMAIN card_pool :
          /\ AddedEntry(i)
          /\ deck[i].name \in Range(card_pool)
          /\ ConsideredBefore(deck[i].name, card_pool[j])
          /\ PoolPosition(card_pool[j]) < PoolPosition(deck[i].name)
          /\ ~DictHas(deck, card_pool[j])


NonLandTypes ==
    {"Creature", "Planeswalker", "Instant", "Sorcery", "Artifact", "Enchantment"}

\* names of the pool of type t that the deck handed in does not hold
Candidates(t) ==
    {n \in Range(card_pool) : TypeOfName(n) = t /\ ~DictHas(existing_deck, n)}

\* copies of type t in the deck handed in, and in the deck returned
PreSeeded(t) == CategoryCount(existing_deck, t, Len(existing_deck))

FinalCount(t) == CategoryCount(deck, t, Len(deck))

\* C20 as stated: after the call a category's count does not exceed its
\* target when the pre-seeded count did not; it equals the target whenever
\* the category has at least (target - pre-seeded) candidates not already in
\* the deck; otherwise every such candidate is in the deck.
C20_TargetOrExhaustion ==
    pc = "selected" =>
        \A t \in NonLandTypes :
            /\ PreSeeded(t) <= composition[t] => FinalCount(t) <= composition[t]
            /\ IF Cardinality(Candidates(t)) >= composition[t] - PreSeeded(t)
               THEN FinalCount(t) = composition[t]
               ELSE \A n \in Candidates(t) : DictHas(deck, n)

\* C20, amended: a category pre-seeded at or above its target keeps its
\* pre-seeded count; a category pre-seeded below its target ends exactly at
\* the target when it has at least (target - pre-seeded) candidates not
\* already in the deck, and otherwise ends below the target with every such
\* candidate in the deck; the call raises only when the pool or the deck
\* handed in holds a card of primary type "Other", never for want of
\* candidates.
C20_TargetOrExhaustionFromBelow ==
    /\ pc = "selected" =>
          \A t \in NonLandTypes :
              IF PreSeeded(t) >= composition[t]
              THEN FinalCount(t) = PreSeeded(t)
              ELSE IF Cardinality(Candidates(t)) >= composition[t] - PreSeeded(t)
                   THEN FinalCount(t) = composition[t]
                   ELSE /\ \A n \in Candidates(t) : DictHas(deck, n)
                        /\ FinalCount(t) < composition[t]
    /\ pc = "raised" =>
          \E n \in Range(card_pool) \cup Range(DictKeys(existing_deck)) :
              TypeOfName(n) = "Other"

\* one category was filled exactly to its target with candidates to spare,
\* another was left short with all its candidates taken
C20_Witness ==
    /\ pc = "selected"
    /\ \E t \in NonLandTypes :
          /\ PreSeeded(t) < composition[t]
          /\ FinalCount(t) = composition[t]
          /\ \E n \in Candidates(t) : ~DictHas(deck, n)
    /\ \E t \in NonLandTypes :
          /\ Candidates(t) # {}
          /\ FinalCount(t) < composition[t]
          /\ \A n \in Candidates(t) : DictHas(deck, n)


\* C21: a category whose pre-seeded count is at or above its target is left
\* as it was: the selector adds no card of it and no entry ever gets fewer
\* than one copy; no card of type Land is added by the selector; and the call
\* returns without raising.
C21_FilledCategoryLeftAlone ==
    /\ pc = "selected" =>
          /\ \A t \in NonLandTypes :
                PreSeeded(t) >= composition[t] =>
                    /\ \A i \in DOMAIN deck : AddedEntry(i) => TypeOfName(deck[i].name) # t
                    /\ FinalCount(t) = PreSeeded(t)
          /\ \A i \in DOMAIN deck :
                AddedEntry(i) => TypeOfName(deck[i].name) # "Land" /\ deck[i].qty >= 1
          /\ \A i \in DOMAIN existing_deck : deck[i] = existing_deck[i]
    /\ pc # "raised"

\* two pinned Artifacts exceed the Artifact target of 1; a third Artifact,
\* scored 0.9, and a Land were candidates, and neither was added
C21_Witness ==
    /\ pc = "selected"
    /\ PreSeeded("Artifact") > composition["Artifact"]
    /\ "Lotus" \in Range(card_pool) /\ ~DictHas(deck, "Lotus")
    /\ ScoreOf(synergy_scores, "Lotus") > HighSynergy
    /\ "Tower" \in Range(card_pool) /\ ~DictHas(deck, "Tower")
    /\ "Bolt" \in Range(card_pool) /\ DictHas(deck, "Bolt")

---------------------------------------------------------------------------
(* Claims about _get_primary_type *)

\* C22: _get_primary_type returns the first of Creature, Planeswalker,
\* Instant, Sorcery, Artifact, Enchantment, Land that is among the card's
\* types, and "Other" when none is or the card has no types; a card that is
\* both a Creature and an Artifact is a Creature in whatever order its types
\* are listed.
C22_Precedence ==
    pc = "typed" =>
        LET has(t) == \E i \in DOMAIN classified_card.types :
                         classified_card.types[i] = t
        IN  /\ primary_type =
                 IF has("Creature") THEN "Creature"
                 ELSE IF has("Planeswalker") THEN "Planeswalker"
                 ELSE IF has("Instant") THEN "Instant"
                 ELSE IF has("Sorcery") THEN "Sorcery"
                 ELSE IF has("Artifact") THEN "Artifact"
                 ELSE IF has("Enchantment") THEN "Enchantment"
                 ELSE IF has("Land") THEN "Land"
                 ELSE "Other"
            /\ (has("Creature") /\ has("Artifact")) => primary_type = "Creature"

\* a card listing Artifact before Creature was classified as a Creature
C22_Witness ==
    /\ pc = "typed"
    /\ classified_card.types = <<"Kindred", "Artifact", "Creature">>
    /\ primary_type = "Creature"

---------------------------------------------------------------------------
(* Claims about the strategies of the Composition Planner *)

\* the composition of 36 non-land cards and 24 lands with the given counts of
\* Creature, Instant, Sorcery, Artifact, Enchantment, Planeswalker
PlanOf(cr, ins, so, ar, en, pw) ==
    [t \in CompositionTypes |->
        CASE t = "Creature"     -> cr
          [] t = "Instant"      -> ins
          [] t = "Sorcery"      -> so
          [] t = "Artifact"     -> ar
          [] t = "Enchantment"  -> en
          [] t = "Planeswalker" -> pw
          [] t = "Land"         -> 24]

\* the plan of a primary strategy on its own, whatever its case
PrimaryPlan(primary) ==
    CASE primary \in {"aggro", "Aggro"}     -> PlanOf(21, 5, 3, 1, 1, 1)
      [] primary \in {"control", "CONTROL"} -> PlanOf(9, 10, 7, 1, 3, 3)
      [] primary = "midrange"               -> PlanOf(16, 7, 5, 1, 1, 3)
      [] primary = "combo"                  -> PlanOf(10, 9, 7, 3, 3, 1)
      [] OTHER                              -> PlanOf(14, 7, 5, 3, 3, 1)

\* C23: the plan depends on the primary strategy and the format only: with
\* any secondary strategy it is the plan the primary strategy has with the
\* empty secondary strategy; the primary strategy is matched whatever its
\* case, and a string other than aggro, control, midrange, combo gives the
\* balanced default.
C23_SecondaryIgnored ==
    /\ pc = "planned" => composition = PrimaryPlan(primary_strategy)
    /\ \A s \in SecondaryStrategies :
          _determine_deck_composition(primary_strategy, s, format_name)
            = _determine_deck_composition(primary_strategy, "", format_name)

\* an upper-case primary strategy planned together with a secondary strategy
C23_Witness ==
    /\ pc = "planned"
    /\ primary_strategy = "CONTROL"
    /\ secondary_strategy = "control"
    /\ composition["Instant"] = 10
    /\ composition["Creature"] = 9

---------------------------------------------------------------------------
(* Claims about the allotment of basic lands *)

\* the basics the distribution holds for a color
BasicsOf(c) == DictGet(land_distribution, BasicName(c))

\* floor(total_land_count * share of the color)
FloorShare(c) ==
    (total_land_count * PipsOf(mana_requirements, c)) \div TotalPips(mana_requirements)

\* C24: the basics of a color are the floor of total land count x color
\* share, or that floor plus one land of the remainder, and once the
\* remainder is handed out the distribution holds exactly the total land
\* count.
C24_FloorPlusRemainder ==
    (pc = "mana_done" /\ Len(deck_colors) > 1) =>
        /\ \A i \in DOMAIN deck_colors :
              BasicsOf(deck_colors[i]) \in
                  {FloorShare(deck_colors[i]), FloorShare(deck_colors[i]) + 1}
        /\ DictTotal(land_distribution) = total_land_count

---------------------------------------------------------------------------
(* Claims about the order of the Quantity Normalizer *)

\* the basic lands of the decklists: the five of the rotation and Wastes
SkippedNames == {"Plains", "Island", "Swamp", "Mountain", "Forest", "Wastes"}

\* copies an entry of the deck handed in can still take in the first phase
Headroom(i) ==
    IF existing_deck[i].name \in SkippedNames
         \/ existing_deck[i].qty >= MaxCopies(format_name)
    THEN 0
    ELSE MaxCopies(format_name) - existing_deck[i].qty

\* copies added to the entry at position i
Grown(i) == deck[i].qty - existing_deck[i].qty

TotalHeadroom == SumSeq([i \in DOMAIN existing_deck |-> Headroom(i)])

Shortfall == MinCards(format_name) - DictTotal(existing_deck)

\* a basic land of the rotation was added, to an entry or as a new entry
BasicsAdded ==
    \/ Len(deck) > Len(existing_deck)
    \/ \E i \in DOMAIN existing_deck :
          existing_deck[i].name \in Range(BasicLandNames) /\ Grown(i) > 0

\* C25: for a deck below the minimum, non-basic entries are topped up in the
\* order of the deck, each one to max_copies before the next one gets a copy,
\* and no further once the minimum is met; basic-land entries get nothing in
\* this phase; basic lands are added only when every non-basic entry is out
\* of headroom and the deck is still short.
C25_TopUpOrder ==
    (pc = "adjusted" /\ DictTotal(existing_deck) < MinCards(format_name)) =>
        /\ \A i \in DOMAIN existing_deck : deck[i].name = existing_deck[i].name
        /\ \A i \in DOMAIN existing_deck :
              existing_deck[i].name \notin Range(BasicLandNames)
                  => Grown(i) >= 0 /\ Grown(i) <= Headroom(i)
        /\ \A i, j \in DOMAIN existing_deck :
              (i < j /\ Headroom(j) > 0 /\ Grown(j) > 0) => Grown(i) >= Headroom(i)
        /\ SumSeq([i \in DOMAIN existing_deck |->
                      IF existing_deck[i].name \in Range(BasicLandNames)
                      THEN 0 ELSE Grown(i)])
             = Min(Shortfall, TotalHeadroom)
        /\ BasicsAdded <=> TotalHeadroom < Shortfall

\* a deck four cards short: the first non-basic entry was filled, the second
\* got the one copy still missing, the basic land in front of them nothing
C25_Witness ==
    /\ pc = "adjusted"
    /\ Lower(format_name) = "standard"
    /\ existing_deck = <<Entry("Island", 54), Entry("Bolt", 1), Entry("Ghost", 1)>>
    /\ deck = <<Entry("Island", 54), Entry("Bolt", 4), Entry("Ghost", 2)>>

---------------------------------------------------------------------------
(* Claims about the basic-land rotation *)

\* cards the normalizer added to a land of the rotation
AddedTo(n) == DictGet(deck, n) - DictGet(existing_deck, n)

\* C26: when the normalizer pads with basic lands, each of Plains, Island,
\* Swamp, Mountain, Forest has an entry in the returned deck, a placeholder
\* being created for the ones the deck lacked, and the numbers of cards added
\* to any two of them differ by at most 1.
C26_RoundRobin ==
    (pc = "adjusted" /\ \E n \in Range(BasicLandNames) : AddedTo(n) > 0) =>
        /\ \A n \in Range(BasicLandNames) : DictHas(deck, n)
        /\ \A n, m \in Range(BasicLandNames) : AddedTo(n) - AddedTo(m) <= 1

---------------------------------------------------------------------------
(* Claims about the deduplication of the card pool *)

\* position of the first occurrence of a name in a list
FirstIndex(q, n) == CHOOSE i \in DOMAIN q : q[i] = n /\ \A j \in 1..(i - 1) : q[j] # n

\* the first occurrence of every name of a list, in the order of the list
FirstOccurrences(q) ==
    LET keep == {i \in DOMAIN q : \A j \in 1..(i - 1) : q[j] # q[i]}
    IN  [k \in 1..Cardinality(keep) |->
            q[CHOOSE i \in keep : Cardinality({j \in keep : j <= i}) = k]]

\* C27: the pool retrieve_card_pool returns holds every name of the strategy
\* and win-condition matches once, in the order of their first occurrences
\* (strategy matches first); and the selector handed a pool in which a name
\* occurs several times returns the deck it returns for the pool of the first
\* occurrences, the name getting one entry.
C27_Deduplicated ==
    /\ (pc # "retrieve" /\ AllCards(matches) # <<>>) =>
          /\ \A i, j \in DOMAIN card_pool : card_pool[i] = card_pool[j] => i = j
          /\ Range(card_pool) = Range(AllCards(matches))
          /\ \A i, j \in DOMAIN card_pool :
                i < j => FirstIndex(AllCards(matches), card_pool[i])
                           < FirstIndex(AllCards(matches), card_pool[j])
    /\ pc = "selected" =>
          /\ deck = _select_cards(existing_deck, FirstOccurrences(card_pool),
                                  synergy_scores, composition, format_name)
          /\ \A i, j \in DOMAIN deck : deck[i].name = deck[j].name => i = j

\* a card matched by both queries was retrieved once, at the place of its
\* strategy match, and selected
C27_Witness ==
    /\ pc = "selected"
    /\ matches = [strategy |-> <<"Bolt", "Golem">>, win_condition |-> <<"Golem", "Bolt">>]
    /\ card_pool = <<"Bolt", "Golem">>
    /\ DictGet(deck, "Bolt") = 4
    /\ DictGet(deck, "Golem") = 4

---------------------------------------------------------------------------
(* Claims about the failures of the Card Selector *)

\* C28: _select_cards returns a deck for every pool and every pre-seeded
\* deck, also when a pool card or a pinned card has the primary type "Other"
\* or a pinned card is unknown to the catalog.
C28_SelectNeverRaises ==
    pc # "select" => pc \in {"selected", "adjusted"} /\ error = ""

---------------------------------------------------------------------------
(* Claims about the optimizer's weak cards *)

\* power and toughness of a card, a missing or empty value counting as 0
PowerOf(n) == IF n \in DOMAIN PowerField /\ PowerField[n] # "" THEN IntOf(PowerField[n]) ELSE 0

ToughnessOf(n) ==
    IF n \in DOMAIN ToughnessField /\ ToughnessField[n] # ""
    THEN IntOf(ToughnessField[n]) ELSE 0

\* the card is among the weak cards returned
Flagged(n) == \E i \in DOMAIN weak_cards : weak_cards[i].name = n

\* C29: in a deck that is not an aggro deck (where no other rule flags a
\* card), a non-land Creature of the decklist with mana value >= 5 is among
\* the weak cards exactly when its power plus its toughness is strictly less
\* than twice its mana value.
C29_LowImpactCreatures ==
    (pc = "weak_done" /\ ~MentionsAggro(analysis)) =>
        \A i \in DOMAIN deck :
            LET n == deck[i].name
            IN  (/\ KnownCard(n)
                 /\ "Creature" \in Range(Catalog[n].types)
                 /\ "Land" \notin Range(Catalog[n].types)
                 /\ ManaValue(n) >= 5)
                  => (Flagged(n) <=> PowerOf(n) + ToughnessOf(n) < 2 * ManaValue(n))

---------------------------------------------------------------------------
(* Claims about the replacement suggestions *)

\* C30: _generate_replacement_suggestions returns at most 5 suggestions, no
\* two of them for the same card, each for a card of the decklist, each with
\* at most 3 replacements in descending order of score, none of which is a
\* card of the decklist.
C30_Suggestions ==
    pc = "optimized" =>
        /\ Len(suggestions) <= 5
        /\ \A i, j \in DOMAIN suggestions :
              suggestions[i].card_to_replace = suggestions[j].card_to_replace => i = j
        /\ \A i \in DOMAIN suggestions :
              LET r == suggestions[i].replacements
              IN  /\ DictHas(deck, suggestions[i].card_to_replace)
                  /\ Len(r) <= 3
                  /\ \A k, l \in DOMAIN r : k < l => r[k].score >= r[l].score
                  /\ \A k \in DOMAIN r : ~DictHas(deck, r[k].name)

=============================================================================
